---- MODULE Spec2Model ----
(***************************************************************************)
(* FN-OS1 offline signature envelope of fastnear/base-frontend-naj:        *)
(* canonicalize / canonicalBytes, buildEnvelope, signEnvelope,             *)
(* verifyEnvelope and createOfflineSignature (src/src/offline-signature.js  *)
(* and src/src/offline.ts).                                                 *)
(*                                                                         *)
(* JavaScript values are modelled as records [t, a, n, kids]: t is the     *)
(* type tag, a the printed form of a primitive, n its numeric value, kids  *)
(* the members of an object (in insertion order, keys distinct) or the     *)
(* elements of an array.                                                   *)
(* Strings produced by JSON.stringify are sequences of tokens.             *)
(***************************************************************************)
EXTENDS Integers, Sequences, FiniteSets, TLC

VARIABLES
  now,       \* Date.now(), in milliseconds
  request,   \* the arguments of the createOfflineSignature call
  signed,    \* what createOfflineSignature returned
  wire,      \* {message, signature} as it reaches the verifier
  verdict,   \* the outcome of the last verifyEnvelope call on wire at now
  V1, V2,    \* inputs of the canonicalizers
  canonOut,  \* their outputs
  built,     \* the last two calls of the signing functions, oldest first
  chain,     \* the access keys on chain, the provider and the last lookup
  offline,   \* a signOfflineMessage / verifyOfflineMessage exchange
  helper,    \* the last results of detectNetwork, withFastNearAuth, createProvider
  ui         \* the page of the main UI: session, wallet selector, views

vars ==
  <<now, request, signed, wire, verdict, V1, V2, canonOut, built, chain, offline, helper, ui>>

(***************************************************************************)
(* JavaScript values                                                       *)
(***************************************************************************)
JUndef == [t |-> "undef", a |-> "", n |-> 0, kids |-> <<>>]

JNull == [t |-> "null", a |-> "null", n |-> 0, kids |-> <<>>]

JNum(x) == [t |-> "num", a |-> ToString(x), n |-> x, kids |-> <<>>]

JStr(s) == [t |-> "str", a |-> s, n |-> 0, kids |-> <<>>]

JObj(members) == [t |-> "obj", a |-> "", n |-> 0, kids |-> members]

JArr(elems) == [t |-> "arr", a |-> "", n |-> 0, kids |-> elems]

\* Date.prototype.toISOString: the instant, to the millisecond, as a string.
toISOString(ms) == "ISO" \o ToString(ms)

\* A string that is the ISO form of an instant; n keeps the instant it denotes.
JDate(ms) == [t |-> "str", a |-> toISOString(ms), n |-> ms, kids |-> <<>>]

Member(k, v) == [k |-> k, v |-> v]

Elem(v) == [k |-> "", v |-> v]

\* UTF-16 code units of the property names that occur in the model.
CodeUnits(k) ==
  CASE k = "offline_signature" -> <<111, 102, 102, 108, 105, 110, 101, 95, 115, 105, 103, 110, 97, 116, 117, 114, 101>>
    [] k = "extra" -> <<101, 120, 116, 114, 97>>
    [] k = "domain" -> <<100, 111, 109, 97, 105, 110>>
    [] k = "alg" -> <<97, 108, 103>>
    [] k = "network" -> <<110, 101, 116, 119, 111, 114, 107>>
    [] k = "aud" -> <<97, 117, 100>>
    [] k = "sub" -> <<115, 117, 98>>
    [] k = "pk" -> <<112, 107>>
    [] k = "nonce" -> <<110, 111, 110, 99, 101>>
    [] k = "iat" -> <<105, 97, 116>>
    [] k = "exp" -> <<101, 120, 112>>
    [] k = "payload" -> <<112, 97, 121, 108, 111, 97, 100>>
    [] k = "action" -> <<97, 99, 116, 105, 111, 110>>
    [] k = "a" -> <<97>>
    [] k = "b" -> <<98>>
    [] k = "9" -> <<57>>
    [] k = "10" -> <<49, 48>>
    [] k = "__proto__" -> <<95, 95, 112, 114, 111, 116, 111, 95, 95>>
    [] k = "v" -> <<118>>
    [] k = "algo" -> <<97, 108, 103, 111>>
    [] k = "context" -> <<99, 111, 110, 116, 101, 120, 116>>
    [] k = "public_key" -> <<112, 117, 98, 108, 105, 99, 95, 107, 101, 121>>
    [] k = "origin" -> <<111, 114, 105, 103, 105, 110>>
    [] k = "accountId" -> <<97, 99, 99, 111, 117, 110, 116, 73, 100>>
    [] k = "timestamp" -> <<116, 105, 109, 101, 115, 116, 97, 109, 112>>
    [] OTHER -> <<>>

\* String comparison as Array.prototype.sort() does it without a comparator:
\* by UTF-16 code units, a proper prefix first.
LexLess(x, y) ==
  \E i \in 1..Len(y) :
    /\ \A j \in 1..(i - 1) : j <= Len(x) /\ x[j] = y[j]
    /\ (i > Len(x) \/ x[i] < y[i])

\* The property names that occur in the model.
PropertyNames ==
  {"offline_signature", "extra", "domain", "alg", "network", "aud", "sub", "pk", "nonce",
   "iat", "exp", "payload", "action", "a", "b", "9", "10", "__proto__",
   "v", "algo", "context", "public_key", "origin", "accountId", "timestamp"}

\* k1 < k2 for every pair of names, computed once from their code units.
KeyLessTable ==
  [k1 \in PropertyNames |->
     [k2 \in PropertyNames |-> LexLess(CodeUnits(k1), CodeUnits(k2))]]

KeyLess(k1, k2) == KeyLessTable[k1][k2]

RECURSIVE DecimalValue(_)
DecimalValue(c) ==
  IF Len(c) = 0 THEN 0
  ELSE 10 * DecimalValue(SubSeq(c, 1, Len(c) - 1)) + (c[Len(c)] - 48)

\* The digits of 2^32 - 1 = 4294967295.
MaxIndexDigits == <<52, 50, 57, 52, 57, 54, 55, 50, 57, 53>>

\* A property name that is an array index (canonical numeric string below 2^32 - 1).
CanonicalNumericIndex(c) ==
  /\ Len(c) > 0
  /\ \A i \in 1..Len(c) : c[i] \in 48..57
  /\ (Len(c) = 1 \/ c[1] # 48)
  /\ (Len(c) < 10 \/ (Len(c) = 10 /\ LexLess(c, MaxIndexDigits)))

\* The array indices among the property names, with their values.
ArrayIndexTable ==
  [k \in PropertyNames |->
     IF CanonicalNumericIndex(CodeUnits(k)) THEN DecimalValue(CodeUnits(k)) ELSE -1]

IsArrayIndex(k) == ArrayIndexTable[k] >= 0

IndexValue(k) == ArrayIndexTable[k]

RECURSIVE SeqFilterIndex(_, _)
SeqFilterIndex(ks, wantIndex) ==
  IF Len(ks) = 0 THEN <<>>
  ELSE IF IsArrayIndex(Head(ks)) = wantIndex
       THEN <<Head(ks)>> \o SeqFilterIndex(Tail(ks), wantIndex)
       ELSE SeqFilterIndex(Tail(ks), wantIndex)

RECURSIVE InsertNumeric(_, _)
InsertNumeric(sorted, k) ==
  IF Len(sorted) = 0 THEN <<k>>
  ELSE IF IndexValue(k) < IndexValue(Head(sorted))
       THEN <<k>> \o sorted
       ELSE <<Head(sorted)>> \o InsertNumeric(Tail(sorted), k)

RECURSIVE SortNumeric(_)
SortNumeric(ks) ==
  IF Len(ks) = 0 THEN <<>>
  ELSE InsertNumeric(SortNumeric(SubSeq(ks, 1, Len(ks) - 1)), ks[Len(ks)])

RawKeys(v) == [i \in 1..Len(v.kids) |-> v.kids[i].k]

\* Object.keys(v): own enumerable string keys in OrdinaryOwnPropertyKeys
\* order, array indices ascending first, then the others in insertion order.
\* A string and an array have their indices, another primitive has none.
ObjectKeys(v) ==
  IF v.t = "str" THEN [i \in 1..Len(v.a) |-> ToString(i - 1)]
  ELSE IF v.t = "arr" THEN [i \in 1..Len(v.kids) |-> ToString(i - 1)]
  ELSE IF v.t # "obj" THEN <<>>
  ELSE SortNumeric(SeqFilterIndex(RawKeys(v), TRUE))
         \o SeqFilterIndex(RawKeys(v), FALSE)

HasOwn(v, k) == v.t = "obj" /\ \E i \in 1..Len(v.kids) : v.kids[i].k = k

\* v[k] for an own property; undefined when there is none.
Prop(v, k) ==
  IF HasOwn(v, k)
  THEN v.kids[CHOOSE i \in 1..Len(v.kids) : v.kids[i].k = k].v
  ELSE JUndef

\* out[k] = val on an ordinary object: "__proto__" reaches the accessor of
\* Object.prototype and creates no own property.
SetProp(out, k, val) ==
  IF k = "__proto__" THEN out
  ELSE IF HasOwn(out, k)
       THEN JObj([i \in 1..Len(out.kids) |->
                    IF out.kids[i].k = k THEN Member(k, val) ELSE out.kids[i]])
       ELSE JObj(Append(out.kids, Member(k, val)))

\* CreateDataProperty, as Object.fromEntries and JSON.parse define a member.
DefineProp(out, k, val) ==
  IF HasOwn(out, k)
  THEN JObj([i \in 1..Len(out.kids) |->
               IF out.kids[i].k = k THEN Member(k, val) ELSE out.kids[i]])
  ELSE JObj(Append(out.kids, Member(k, val)))

RECURSIVE InsertLex(_, _)
InsertLex(sorted, k) ==
  IF Len(sorted) = 0 THEN <<k>>
  ELSE IF KeyLess(k, Head(sorted))
       THEN <<k>> \o sorted
       ELSE <<Head(sorted)>> \o InsertLex(Tail(sorted), k)

\* Mutant: the keys are left in the order Object.keys gave.
SortKeysUnsorted(ks) == ks

RECURSIVE SortKeys(_)
\* Array.prototype.sort() of an array of strings.
SortKeys(ks) ==
  IF Len(ks) = 0 THEN <<>>
  ELSE InsertLex(SortKeys(SubSeq(ks, 1, Len(ks) - 1)), ks[Len(ks)])

(***************************************************************************)
(* JSON.stringify                                                          *)
(***************************************************************************)
RECURSIVE Stringify(_)
RECURSIVE StringifyMembers(_, _, _)
RECURSIVE StringifyElems(_, _)

StringifyMembers(v, ks, first) ==
  IF Len(ks) = 0 THEN <<>>
  ELSE IF Prop(v, Head(ks)).t = "undef"
       THEN StringifyMembers(v, Tail(ks), first)
       ELSE (IF first THEN <<>> ELSE <<",">>)
              \o <<"\"", Head(ks), "\"", ":">>
              \o Stringify(Prop(v, Head(ks)))
              \o StringifyMembers(v, Tail(ks), FALSE)

StringifyElems(elems, i) ==
  IF i > Len(elems) THEN <<>>
  ELSE (IF i = 1 THEN <<>> ELSE <<",">>)
         \o (IF elems[i].v.t = "undef" THEN <<"null">> ELSE Stringify(elems[i].v))
         \o StringifyElems(elems, i + 1)

Stringify(v) ==
  CASE v.t = "obj" -> <<"{">> \o StringifyMembers(v, ObjectKeys(v), TRUE) \o <<"}">>
    [] v.t = "arr" -> <<"[">> \o StringifyElems(v.kids, 1) \o <<"]">>
    [] v.t = "str" -> <<"\"", v.a, "\"">>
    [] OTHER -> <<v.a>>

\* TextEncoder.encode on the ASCII strings of the model: one byte per code
\* unit, so the bytes are the tokens of the string, tagged as a byte array.
TextEncode(s) == [hash |-> FALSE, bytes |-> s]

(***************************************************************************)
(* canonicalize (offline-signature.js) and canonicalBytes (offline.ts)     *)
(***************************************************************************)
RECURSIVE canon(_)
RECURSIVE canonMembers(_, _, _)

canonMembers(v, ks, out) ==
  IF Len(ks) = 0 THEN out
  ELSE canonMembers(v, Tail(ks), SetProp(out, Head(ks), canon(Prop(v, Head(ks)))))

canon(v) ==
  CASE v.t = "arr" -> JArr([i \in 1..Len(v.kids) |-> Elem(canon(v.kids[i].v))])
    [] v.t = "obj" -> canonMembers(v, SortKeys(ObjectKeys(v)), JObj(<<>>))
    [] OTHER -> v

canonicalize(value) == Stringify(canon(value))

RECURSIVE sortDeep(_)
RECURSIVE fromEntries(_, _, _)

fromEntries(x, ks, out) ==
  IF Len(ks) = 0 THEN out
  ELSE fromEntries(x, Tail(ks), DefineProp(out, Head(ks), sortDeep(Prop(x, Head(ks)))))

sortDeep(x) ==
  CASE x.t = "arr" -> JArr([i \in 1..Len(x.kids) |-> Elem(sortDeep(x.kids[i].v))])
    [] x.t = "obj" -> fromEntries(x, SortKeys(ObjectKeys(x)), JObj(<<>>))
    [] OTHER -> x

canonicalBytes(obj) == TextEncode(Stringify(sortDeep(obj)))

(***************************************************************************)
(* Keys, base58 and the signature primitives                               *)
(***************************************************************************)
Ed25519PkLen == 32

Secp256k1PkLen == 64

SigLen == 64

NonceLen == 16

DefaultTtlMinutes == 5

Domain == "fastnear/offline-signature@v1"

\* Key pairs of the callers: one per curve of near-api-js.
KeyPairs == { [id |-> "A", curve |-> "ed25519"], [id |-> "B", curve |-> "secp256k1"] }

\* Raw public-key bytes: the key they belong to and their length.
RawPk(kp) ==
  [id |-> kp.id, len |-> IF kp.curve = "ed25519" THEN Ed25519PkLen ELSE Secp256k1PkLen]

RawPks == {RawPk(kp) : kp \in KeyPairs}

\* A key pair whose public key string has a prefix other than the two kinds
\* parseNearPk knows.
OtherKeyPairs == { [id |-> "C", curve |-> "p256"] }

AllRawPks == RawPks \cup {RawPk(kp) : kp \in OtherKeyPairs}

\* bs58.encode of public-key bytes.
Base58Encode(raw) == "b58" \o raw.id \o ToString(raw.len)

\* bs58.decode: the bytes, or a throw for a string that is no base58 string
\* (undefined, when split(':') found no second part).
Base58Decode(str) ==
  IF \E raw \in AllRawPks : Base58Encode(raw) = str
  THEN [ok |-> TRUE, raw |-> CHOOSE raw \in AllRawPks : Base58Encode(raw) = str]
  ELSE [ok |-> FALSE, raw |-> [id |-> "", len |-> 0]]

PkKinds == {"ed25519", "secp256k1"}

\* keyPair.getPublicKey().toString() and the other strings of the form
\* <kind>:<base58> over the known kinds and keys.
PkString(kind, raw) == kind \o ":" \o Base58Encode(raw)

PublicKeyString(kp) == PkString(kp.curve, RawPk(kp))

PkStrings == {PkString(kind, raw) : kind \in PkKinds, raw \in RawPks}

\* The pk strings of the other forms a message may carry: a kind that
\* parseNearPk does not know, and a base58 string with no ':' in it.
OtherPkStrings ==
  LET raws == {raw \in RawPks : raw.len = Ed25519PkLen}
  IN {PkString(kp.curve, raw) : kp \in OtherKeyPairs, raw \in raws}
       \cup {Base58Encode(raw) : raw \in raws}

\* The [kind, b58] pairs of the strings that have a ':'.
PkParts ==
  {<<kind, Base58Encode(raw)>> :
     kind \in PkKinds \cup {kp.curve : kp \in OtherKeyPairs}, raw \in AllRawPks}

\* pk.split(':'): [kind, b58]; a string without ':' has no second part.
SplitPk(str) ==
  IF \E parts \in PkParts : parts[1] \o ":" \o parts[2] = str
  THEN CHOOSE parts \in PkParts : parts[1] \o ":" \o parts[2] = str
  ELSE <<str, "">>

NoPub == [id |-> "", len |-> 0]

\* Mutant: a kind other than secp256k1 is taken for ed25519, as
\* getAlgFromKeyPair does, whatever the length of the key.
parseNearPkDefaultKind(pk) ==
  LET parts == SplitPk(pk.a)
      dec == Base58Decode(parts[2])
  IN IF pk.t # "str" \/ ~dec.ok THEN [ok |-> FALSE, alg |-> "", pub |-> NoPub]
     ELSE IF parts[1] = "secp256k1"
          THEN [ok |-> TRUE, alg |-> "secp256k1-ecdsa",
                pub |-> [id |-> dec.raw.id, len |-> dec.raw.len + 1]]
     ELSE [ok |-> TRUE, alg |-> "ed25519", pub |-> dec.raw]

parseNearPk(pk) ==
  LET parts == SplitPk(pk.a)
      dec == Base58Decode(parts[2])
  IN IF pk.t # "str" \/ ~dec.ok THEN [ok |-> FALSE, alg |-> "", pub |-> NoPub]
     ELSE IF parts[1] = "ed25519"
          THEN IF dec.raw.len # Ed25519PkLen
               THEN [ok |-> FALSE, alg |-> "", pub |-> NoPub]
               ELSE [ok |-> TRUE, alg |-> "ed25519", pub |-> dec.raw]
     ELSE IF parts[1] = "secp256k1"
          THEN IF dec.raw.len # Secp256k1PkLen
               THEN [ok |-> FALSE, alg |-> "", pub |-> NoPub]
               ELSE [ok |-> TRUE, alg |-> "secp256k1-ecdsa",
                     pub |-> [id |-> dec.raw.id, len |-> dec.raw.len + 1]]
     ELSE [ok |-> FALSE, alg |-> "", pub |-> NoPub]

getAlgFromKeyPair(keyPair) ==
  LET kind == SplitPk(PublicKeyString(keyPair))[1]
  IN IF kind = "secp256k1" THEN "secp256k1-ecdsa" ELSE "ed25519"

\* sha256 of a byte array: a digest that determines the bytes.
sha256(data) == [hash |-> TRUE, bytes |-> data.bytes]

\* keyPair.sign(data).signature of the near-api-js KeyPair, which is not part
\* of the repository: taken to be what FN-OS1 (Signature Format) states, 64
\* bytes for either curve, that only the holder of the key can produce and
\* that are bound to the data signed.
KeyPairSign(keyPair, data) == [by |-> keyPair.id, over |-> data, len |-> SigLen]

NoSigBytes == [by |-> "", over |-> [hash |-> FALSE, bytes |-> <<>>], len |-> 0]

\* bs58.encode of signature bytes; ok tells a string that bs58.decode accepts.
Base58EncodeSig(sigBytes) == [ok |-> TRUE, bytes |-> sigBytes]

\* ed25519.verify / secp256k1.verify of @noble/curves: true exactly for the
\* signature the key of pub made over the data.
CurveVerify(sigBytes, data, pub) == sigBytes.by = pub.id /\ sigBytes.over = data

(***************************************************************************)
(* buildEnvelope, signEnvelope, createOfflineSignature                     *)
(***************************************************************************)
buildEnvelope(network, aud, sub, pk, nonce, iat, exp, payload, alg) ==
  JObj(<< Member("offline_signature",
            JObj(<< Member("domain", JStr(Domain)),
                    Member("alg", alg),
                    Member("network", network),
                    Member("aud", aud),
                    Member("sub", sub),
                    Member("pk", pk),
                    Member("nonce", nonce),
                    Member("iat", iat),
                    Member("exp", exp),
                    Member("payload", payload) >>)) >>)

NoSigned == [ok |-> FALSE, message |-> JUndef, signature |-> [ok |-> FALSE, bytes |-> NoSigBytes],
             publicKey |-> JUndef, err |-> "", signCalls |-> <<>>]

\* Mutant: an alg that is not secp256k1-ecdsa is signed as ed25519.
signEnvelopeDefaultAlg(envelope, keyPair) ==
  LET bytes == TextEncode(canonicalize(envelope))
      inner == Prop(envelope, "offline_signature")
      hashed == Prop(inner, "alg") = JStr("secp256k1-ecdsa")
      data == IF hashed THEN sha256(bytes) ELSE bytes
  IN IF inner.t \in {"undef", "null"} THEN [NoSigned EXCEPT !.err = "TypeError"]
     ELSE [ok |-> TRUE, message |-> envelope,
           signature |-> Base58EncodeSig(KeyPairSign(keyPair, data)),
           publicKey |-> Prop(inner, "pk"),
           err |-> "", signCalls |-> <<data>>]

\* ok = FALSE stands for a throw, of which err is the kind (the Error for an
\* unsupported alg, or the TypeError of reading alg when there is no
\* offline_signature object): nothing is returned. signCalls are the data
\* keyPair.sign was called with.
signEnvelope(envelope, keyPair) ==
  LET bytes == TextEncode(canonicalize(envelope))
      inner == Prop(envelope, "offline_signature")
      alg == Prop(inner, "alg")
  IN IF inner.t \in {"undef", "null"} THEN [NoSigned EXCEPT !.err = "TypeError"]
     ELSE IF alg = JStr("ed25519")
          THEN [ok |-> TRUE, message |-> envelope,
                signature |-> Base58EncodeSig(KeyPairSign(keyPair, bytes)),
                publicKey |-> Prop(inner, "pk"),
                err |-> "", signCalls |-> <<bytes>>]
     ELSE IF alg = JStr("secp256k1-ecdsa")
          THEN [ok |-> TRUE, message |-> envelope,
                signature |-> Base58EncodeSig(KeyPairSign(keyPair, sha256(bytes))),
                publicKey |-> Prop(inner, "pk"),
                err |-> "", signCalls |-> <<sha256(bytes)>>]
     ELSE [NoSigned EXCEPT !.err = "Unsupported alg"]

\* 16 bytes from crypto.getRandomValues: v tells one draw from another.
RandomBytes == { [len |-> NonceLen, v |-> "1"], [len |-> NonceLen, v |-> "2"] }

\* Mutant: the nonce does not depend on the bytes drawn.
generateNonceStored(bytes) == JStr("b58nonce" \o "1")

\* generateNonce, given the bytes crypto.getRandomValues wrote.
generateNonce(bytes) == JStr("b58nonce" \o bytes.v)

\* Mutant: the ttl is added as seconds.
createOfflineSignatureTtlInSeconds(network, aud, sub, keyPair, payload, ttlMinutes, t, nonce) ==
  LET exp == t + ttlMinutes * 1000
      alg == getAlgFromKeyPair(keyPair)
      envelope == buildEnvelope(network, aud, sub, JStr(PublicKeyString(keyPair)),
                                nonce, JDate(t), JDate(exp), payload, JStr(alg))
  IN signEnvelope(envelope, keyPair)

\* createOfflineSignature called at instant t; nonce is what generateNonce drew.
createOfflineSignature(network, aud, sub, keyPair, payload, ttlMinutes, t, nonce) ==
  LET exp == t + ttlMinutes * 60 * 1000
      alg == getAlgFromKeyPair(keyPair)
      envelope == buildEnvelope(network, aud, sub, JStr(PublicKeyString(keyPair)),
                                nonce, JDate(t), JDate(exp), payload, JStr(alg))
  IN signEnvelope(envelope, keyPair)

\* createOfflineSignature called with an argument object in which ttlMinutes
\* may be undefined: the default of the parameter list applies.
createOfflineSignatureWithDefaults(args, t, nonce) ==
  createOfflineSignature(args.network, args.aud, args.sub, args.keyPair, args.payload,
                         IF args.ttlMinutes.t = "undef" THEN DefaultTtlMinutes
                         ELSE args.ttlMinutes.n,
                         t, nonce)

DefaultTtlSeconds == 300

\* signOffline of offline.ts called at instant t (milliseconds): the times of
\* its envelope are in whole seconds.
signOffline(keyPair, payload, opts, t, nonceBytes) ==
  LET nowSec == t \div 1000
      ttl == IF opts.ttlSeconds.t \in {"undef", "null"} THEN DefaultTtlSeconds
             ELSE opts.ttlSeconds.n
      envelope ==
        JObj(<< Member("offline_signature",
                  JObj(<< Member("v", JNum(1)),
                          Member("algo", JStr("ed25519")),
                          Member("context", JStr("fastnear.offline")),
                          Member("network", opts.network),
                          Member("public_key", JStr(PublicKeyString(keyPair))),
                          Member("nonce", generateNonce(nonceBytes)),
                          Member("iat", JNum(nowSec)),
                          Member("exp", JNum(nowSec + ttl)),
                          Member("origin", opts.origin),
                          Member("aud", opts.aud),
                          Member("payload", payload) >>)) >>)
      bytes == canonicalBytes(envelope)
  IN [ok |-> TRUE, message |-> envelope,
      signature |-> Base58EncodeSig(KeyPairSign(keyPair, bytes)),
      publicKey |-> JUndef, err |-> "", signCalls |-> <<bytes>>]

(***************************************************************************)
(* verifyEnvelope                                                          *)
(***************************************************************************)
\* ToBoolean of a value, as !x reads it.
Truthy(v) ==
  CASE v.t \in {"undef", "null"} -> FALSE
    [] v.t = "str" -> v.a # ""
    [] v.t = "num" -> v.n # 0
    [] OTHER -> TRUE

\* new Date(v).getTime(): the instant of an ISO string or of a number, NaN
\* for another string or an object.
DateGetTime(v) ==
  CASE v.t = "str" /\ v.a = toISOString(v.n) -> [nan |-> FALSE, ms |-> v.n]
    [] v.t = "num" -> [nan |-> FALSE, ms |-> v.n]
    [] v.t = "null" -> [nan |-> FALSE, ms |-> 0]
    [] OTHER -> [nan |-> TRUE, ms |-> 0]

\* The outcome of a call: what it resolved to ("true", "false") or "throw",
\* the steps it evaluated in order, and whether the curve primitive ran.
Outcome(result, steps) ==
  [outcome |-> result, steps |-> steps,
   crypto |-> \E i \in 1..Len(steps) : steps[i] = "crypto"]

NoVerdict == [outcome |-> "none", steps |-> <<>>, crypto |-> FALSE]

Bool(b) == IF b THEN "true" ELSE "false"

\* Mutant: only the name of the first key is tested, not the number of keys.
StructureCheckFirstKeyOnly(message) ==
  LET keys == ObjectKeys(message)
  IN Len(keys) >= 1 /\ keys[1] = "offline_signature"

StructureCheck(message) ==
  LET keys == ObjectKeys(message)
  IN ~(Len(keys) # 1 \/ keys[1] # "offline_signature")

\* Mutant: any domain is accepted.
DomainCheckAny(sig) == TRUE

DomainCheck(sig) == ~(Prop(sig, "domain") # JStr(Domain))

\* Mutant: no field is required.
FieldsCheckAny(sig) == TRUE

FieldsCheck(sig) ==
  ~(\/ ~Truthy(Prop(sig, "alg"))
    \/ ~Truthy(Prop(sig, "aud"))
    \/ ~Truthy(Prop(sig, "pk"))
    \/ ~Truthy(Prop(sig, "nonce"))
    \/ ~Truthy(Prop(sig, "exp"))
    \/ ~Truthy(Prop(sig, "sub")))

\* Mutant: an envelope is expired already at the instant exp.
ExpiryCheckInclusive(sig, t) ==
  LET exp == DateGetTime(Prop(sig, "exp"))
  IN ~(~exp.nan /\ exp.ms <= t)

\* Mutant: exp is not compared with the clock.
ExpiryCheckNever(sig, t) == TRUE

ExpiryCheck(sig, t) ==
  LET exp == DateGetTime(Prop(sig, "exp"))
  IN ~(~exp.nan /\ exp.ms < t)

\* Mutant: the declared alg is not compared with the alg of the key.
AlgCheckAny(sig, alg) == TRUE

AlgCheck(sig, alg) ==
  ~(Prop(sig, "alg") # JStr(alg)
      /\ ~(Prop(sig, "alg") = JStr("secp256k1-ecdsa") /\ alg = "secp256k1-ecdsa"))

\* Mutant: the length of the signature is not tested.
VerifyTryAnyLength(message, signature, sig, pre) ==
  LET bytes == TextEncode(canonicalize(message))
      parsed == parseNearPk(Prop(sig, "pk"))
      sigBytes == signature.bytes
  IN IF ~signature.ok THEN Outcome("false", pre \o <<"canonicalize", "decode">>)
     ELSE IF ~parsed.ok
          THEN Outcome("false", pre \o <<"canonicalize", "decode", "pkparse">>)
     ELSE IF ~AlgCheck(sig, parsed.alg)
          THEN Outcome("false", pre \o <<"canonicalize", "decode", "pkparse", "alg">>)
     ELSE IF parsed.alg = "ed25519"
          THEN IF FALSE
               THEN Outcome("false",
                      pre \o <<"canonicalize", "decode", "pkparse", "alg", "siglen">>)
               ELSE Outcome(Bool(CurveVerify(sigBytes, bytes, parsed.pub)),
                      pre \o <<"canonicalize", "decode", "pkparse", "alg", "siglen", "crypto">>)
     ELSE IF parsed.alg = "secp256k1-ecdsa"
          THEN IF FALSE
               THEN Outcome("false",
                      pre \o <<"canonicalize", "decode", "pkparse", "alg", "siglen">>)
               ELSE Outcome(Bool(CurveVerify(sigBytes, sha256(bytes), parsed.pub)),
                      pre \o <<"canonicalize", "decode", "pkparse", "alg", "siglen", "crypto">>)
     ELSE Outcome("false", pre \o <<"canonicalize", "decode", "pkparse", "alg">>)

\* The try block of verifyEnvelope; a throw inside it resolves to false.
VerifyTry(message, signature, sig, pre) ==
  LET bytes == TextEncode(canonicalize(message))
      parsed == parseNearPk(Prop(sig, "pk"))
      sigBytes == signature.bytes
  IN IF ~signature.ok THEN Outcome("false", pre \o <<"canonicalize", "decode">>)
     ELSE IF ~parsed.ok
          THEN Outcome("false", pre \o <<"canonicalize", "decode", "pkparse">>)
     ELSE IF ~AlgCheck(sig, parsed.alg)
          THEN Outcome("false", pre \o <<"canonicalize", "decode", "pkparse", "alg">>)
     ELSE IF parsed.alg = "ed25519"
          THEN IF sigBytes.len # SigLen
               THEN Outcome("false",
                      pre \o <<"canonicalize", "decode", "pkparse", "alg", "siglen">>)
               ELSE Outcome(Bool(CurveVerify(sigBytes, bytes, parsed.pub)),
                      pre \o <<"canonicalize", "decode", "pkparse", "alg", "siglen", "crypto">>)
     ELSE IF parsed.alg = "secp256k1-ecdsa"
          THEN IF sigBytes.len # SigLen
               THEN Outcome("false",
                      pre \o <<"canonicalize", "decode", "pkparse", "alg", "siglen">>)
               ELSE Outcome(Bool(CurveVerify(sigBytes, sha256(bytes), parsed.pub)),
                      pre \o <<"canonicalize", "decode", "pkparse", "alg", "siglen", "crypto">>)
     ELSE Outcome("false", pre \o <<"canonicalize", "decode", "pkparse", "alg">>)

\* verifyEnvelope({message, signature}) called at instant t.
verifyEnvelope(message, signature, t) ==
  LET sig == Prop(message, "offline_signature")
  IN IF ~StructureCheck(message) THEN Outcome("false", <<"structure">>)
     ELSE IF sig.t \in {"undef", "null"} THEN Outcome("throw", <<"structure", "domain">>)
     ELSE IF ~DomainCheck(sig) THEN Outcome("false", <<"structure", "domain">>)
     ELSE IF ~FieldsCheck(sig) THEN Outcome("false", <<"structure", "domain", "fields">>)
     ELSE IF ~ExpiryCheck(sig, t)
          THEN Outcome("false", <<"structure", "domain", "fields", "expiry">>)
     ELSE VerifyTry(message, signature, sig, <<"structure", "domain", "fields", "expiry">>)

(***************************************************************************)
(* Bounded JSON-like inputs of the canonicalizers                          *)
(***************************************************************************)
\* Largest number of members and elements, over all nesting levels, of an input.
MaxMembers == 3

CanonKeys == {"a", "9", "10", "__proto__"}

Leaves == {JNum(1)}

KeySeqs(m) == {s \in [1..m -> CanonKeys] : \A i, j \in 1..m : s[i] = s[j] => i = j}

\* Objects and arrays of exactly m primitive members.
FlatContainers(m) ==
  {JObj([i \in 1..m |-> Member(ks[i], ls[i])]) : ks \in KeySeqs(m), ls \in [1..m -> Leaves]}
    \cup {JArr([i \in 1..m |-> Elem(ls[i])]) : ls \in [1..m -> Leaves]}

WithKid(c, pos, v) ==
  [c EXCEPT !.kids = [i \in 1..Len(c.kids) |->
                        IF i = pos THEN [k |-> c.kids[i].k, v |-> v] ELSE c.kids[i]]]

RECURSIVE JsonValues(_)
\* The JSON-like values with at most n members and elements in all, in which
\* at most one member of each object or array is itself an object or array.
JsonValues(n) ==
  Leaves \cup
  UNION { LET flat == FlatContainers(m)
              inner == IF m = 0 THEN {}
                       ELSE {v \in JsonValues(n - m) : v.t \in {"obj", "arr"}}
          IN flat \cup {WithKid(c, pos, v) : c \in flat, pos \in 1..m, v \in inner}
          : m \in 0..n }

Perms(n) == {p \in [1..n -> 1..n] : \A i, j \in 1..n : p[i] = p[j] => i = j}

RECURSIVE Reorderings(_)
\* The values deep-equal to v up to the insertion order of object keys.
Reorderings(v) ==
  IF v.t \notin {"obj", "arr"} THEN {v}
  ELSE LET n == Len(v.kids)
           kidsets == [i \in 1..n |-> Reorderings(v.kids[i].v)]
           choices == {s \in [1..n -> UNION {kidsets[i] : i \in 1..n}] :
                         \A i \in 1..n : s[i] \in kidsets[i]}
       IN IF v.t = "arr"
          THEN {JArr([i \in 1..n |-> Elem(s[i])]) : s \in choices}
          ELSE {JObj([i \in 1..n |-> Member(v.kids[p[i]].k, s[p[i]])]) :
                  s \in choices, p \in Perms(n)}

NoCanon == [fn |-> "none", s1 |-> <<>>, s2 |-> <<>>]

(***************************************************************************)
(* The envelope in use: a caller signs, the signed message travels, where  *)
(* one modification may be made to it and its signature may be replaced,   *)
(* and a verifier calls verifyEnvelope on what arrives.                    *)
(***************************************************************************)
\* The instants the clock takes, in milliseconds: the instant of signing and
\* the instants around the expiry of a 1-minute and of a 5-minute envelope.
Instants == {1000000 + d : d \in {0, 59000, 60000, 61000, 179000, 181000, 301000}}

TtlChoices == {1, DefaultTtlMinutes}

Nonces == {JStr("b58nonce1"), JStr("b58nonce2")}

\* What callers ask to have signed.
Requests ==
  { [network |-> JStr("testnet"), aud |-> JStr("https://app.example"),
     sub |-> JStr("alice.testnet"),
     payload |-> JObj(<<Member("action", JStr("test"))>>)],
    [network |-> JStr("mainnet"), aud |-> JStr("https://example.com"),
     sub |-> JStr("bob.near"),
     payload |-> JObj(<<Member("b", JNum(1)), Member("a", JArr(<<Elem(JNum(2))>>))>>)] }

NoWire == [message |-> JUndef, signature |-> [ok |-> FALSE, bytes |-> NoSigBytes], edited |-> FALSE]

NoRequest ==
  [network |-> JUndef, aud |-> JUndef, sub |-> JUndef,
   keyPair |-> [id |-> "", curve |-> ""], payload |-> JUndef, ttlMinutes |-> 0]

Envelope(message) == Prop(message, "offline_signature")

\* The values a party in transit may put in place of field f of an envelope.
TamperValues(f, env) ==
  LET cur == Prop(env, f)
      alt == CASE f = "payload" ->
                    {JObj(<<Member("action", JStr("evil"))>>)}
                      \cup (IF cur.t = "obj" THEN {DefineProp(cur, "__proto__", JNum(1))} ELSE {})
               [] f = "nonce" -> Nonces
               [] f = "sub" -> {JStr("mallory.testnet")}
               [] f = "aud" -> {JStr("https://evil.example")}
               [] f = "network" -> {JStr("testnet"), JStr("mainnet")}
               [] f = "domain" -> {JStr("fastnear/offline-signature@v2")}
               [] f = "alg" -> {JStr("ed25519"), JStr("secp256k1-ecdsa")}
               [] f = "pk" -> {JStr(str) : str \in PkStrings \cup OtherPkStrings}
               [] f = "exp" -> {JDate(cur.n + 60 * 1000), JStr("never")}
               [] f = "iat" -> {JDate(cur.n - 60 * 1000)}
               [] OTHER -> {}
  IN alt \ {cur}

TamperedFields ==
  {"payload", "nonce", "sub", "aud", "network", "domain", "alg", "pk", "exp", "iat"}

RequiredFields == {"alg", "aud", "pk", "nonce", "exp", "sub"}

\* The ten fields buildEnvelope puts in an envelope.
EnvelopeFields == RequiredFields \cup {"domain", "network", "iat", "payload"}

WithEnvelopeField(message, f, v) ==
  DefineProp(message, "offline_signature", DefineProp(Envelope(message), f, v))

RECURSIVE SeqWithoutKey(_, _)
SeqWithoutKey(members, k) ==
  IF Len(members) = 0 THEN <<>>
  ELSE IF Head(members).k = k THEN Tail(members)
       ELSE <<Head(members)>> \o SeqWithoutKey(Tail(members), k)

WithoutEnvelopeField(message, f) ==
  DefineProp(message, "offline_signature", JObj(SeqWithoutKey(Envelope(message).kids, f)))

\* No message that signOfflineMessage returned.
NoOut == [ok |-> FALSE, message |-> JUndef, signature |-> [ok |-> FALSE, bytes |-> NoSigBytes],
          publicKey |-> JUndef, accountId |-> JUndef]

\* signOfflineMessage was not called yet.
NoOffline == [fn |-> "none", flag |-> FALSE, at |-> 0, out |-> NoOut,
              verifyFlag |-> FALSE, result |-> "none"]

\* No helper was called yet.
NoHelper == [fn |-> "none"]

\* An element of the page: whether its class list has 'hidden', and its inline
\* style.display ("" when the script has not set it).
Element(hidden, display) == [hidden |-> hidden, display |-> display]

\* No step of the page was taken yet.
NoEvent == [ev |-> "none", accounts |-> <<>>, prev |-> "", path |-> "",
            signAccount |-> "", signKey |-> ""]

\* The wallet selector store before anybody signed in.
NoStore == [accounts |-> <<>>, selected |-> FALSE]

\* The page before its script ran: the variables of the module as declared
\* (null is ""), the markup as index.html has it, nothing in localStorage, no
\* wallet selector.
NoUi ==
  [loaded |-> FALSE, variant |-> "", accountId |-> "", keyPair |-> "", walletSelector |-> FALSE,
   session |-> "", keyStore |-> {}, currentAccount |-> "",
   loginForm |-> Element(FALSE, ""), loggedInView |-> Element(TRUE, ""),
   statusEl |-> Element(TRUE, ""),
   store |-> NoStore, started |-> 0, inits |-> 0, subscribers |-> 0, tasks |-> <<>>,
   logout |-> "idle", lookups |-> {}, last |-> NoEvent]

\* No account has an access key, the provider answers, nothing was looked up.
NoChain ==
  [accounts |-> {}, keys |-> {}, provider |-> "up", fn |-> "none",
   accountId |-> "", publicKey |-> "", query |-> "none", result |-> "none"]

Init ==
  /\ now = 1000000
  /\ request = NoRequest
  /\ signed = NoSigned
  /\ wire = NoWire
  /\ verdict = NoVerdict
  /\ V1 = JNull
  /\ V2 = JNull
  /\ canonOut = NoCanon
  /\ built = <<>>
  /\ chain = NoChain
  /\ offline = NoOffline
  /\ helper = NoHelper
  /\ ui = NoUi

\* A caller signs a payload; the signed message is sent.
CreateOfflineSignature ==
  /\ ~signed.ok
  /\ \E keyPair \in KeyPairs, req \in Requests, ttlMinutes \in TtlChoices, nonce \in Nonces :
        /\ signed' = createOfflineSignature(req.network, req.aud, req.sub, keyPair,
                                            req.payload, ttlMinutes, now, nonce)
        /\ wire' = [message |-> signed'.message, signature |-> signed'.signature,
                    edited |-> FALSE]
        /\ request' = [network |-> req.network, aud |-> req.aud, sub |-> req.sub,
                       keyPair |-> keyPair, payload |-> req.payload,
                       ttlMinutes |-> ttlMinutes]
  /\ verdict' = NoVerdict
  /\ UNCHANGED <<now, V1, V2, canonOut, built, chain, offline, helper, ui>>

\* Time passes.
Tick ==
  /\ signed.ok
  /\ \E t \in Instants : t > now /\ now' = t
  /\ verdict' = NoVerdict
  /\ UNCHANGED <<request, signed, wire, V1, V2, canonOut, built, chain, offline, helper, ui>>

\* A field of the envelope is changed in transit; the signature is kept.
TamperField ==
  /\ signed.ok
  /\ ~wire.edited
  /\ Envelope(wire.message).t = "obj"
  /\ \E f \in TamperedFields :
       \E v \in TamperValues(f, Envelope(wire.message)) :
         wire' = [wire EXCEPT !.message = WithEnvelopeField(wire.message, f, v),
                              !.edited = TRUE]
  /\ verdict' = NoVerdict
  /\ UNCHANGED <<now, request, signed, V1, V2, canonOut, built, chain, offline, helper, ui>>

\* A field is removed from the envelope in transit.
RemoveField ==
  /\ signed.ok
  /\ ~wire.edited
  /\ Envelope(wire.message).t = "obj"
  /\ \E f \in EnvelopeFields :
       /\ HasOwn(Envelope(wire.message), f)
       /\ wire' = [wire EXCEPT !.message = WithoutEnvelopeField(wire.message, f),
                               !.edited = TRUE]
  /\ verdict' = NoVerdict
  /\ UNCHANGED <<now, request, signed, V1, V2, canonOut, built, chain, offline, helper, ui>>

\* The top level of the message is changed in transit: a key is added, the
\* wrapper key is renamed, or offline_signature is replaced by null.
TamperWrapper ==
  /\ signed.ok
  /\ ~wire.edited
  /\ HasOwn(wire.message, "offline_signature")
  /\ \E m \in { DefineProp(wire.message, "extra", JNum(1)),
                 JObj(<<Member("extra", Envelope(wire.message))>>),
                 DefineProp(wire.message, "offline_signature", JNull) } :
       /\ m # wire.message
       /\ wire' = [wire EXCEPT !.message = m, !.edited = TRUE]
  /\ verdict' = NoVerdict
  /\ UNCHANGED <<now, request, signed, V1, V2, canonOut, built, chain, offline, helper, ui>>

\* The signature string is replaced by one that is no base58 string, or by
\* the encoding of the signature cut to 63 bytes.
GarbleSignature ==
  /\ signed.ok
  /\ wire.signature = signed.signature
  /\ \E s \in { [ok |-> FALSE, bytes |-> NoSigBytes],
                 Base58EncodeSig([wire.signature.bytes EXCEPT !.len = SigLen - 1]) } :
       wire' = [wire EXCEPT !.signature = s]
  /\ verdict' = NoVerdict
  /\ UNCHANGED <<now, request, signed, V1, V2, canonOut, built, chain, offline, helper, ui>>

\* The key pair that made the signature of the signed message.
SignerOf(sm) == CHOOSE keyPair \in KeyPairs : keyPair.id = sm.signature.bytes.by

\* The signer signs the canonical bytes of the message as it is now, directly
\* or over their SHA-256 digest (keyPair.sign, without signEnvelope choosing
\* by alg), and the signature is put in place.
SignRaw ==
  /\ signed.ok
  /\ LET bytes == TextEncode(canonicalize(wire.message))
     IN \E hashed \in BOOLEAN :
          LET s == Base58EncodeSig(KeyPairSign(SignerOf(signed),
                                               IF hashed THEN sha256(bytes) ELSE bytes))
          IN /\ s # wire.signature
             /\ wire' = [wire EXCEPT !.signature = s]
  /\ verdict' = NoVerdict
  /\ UNCHANGED <<now, request, signed, V1, V2, canonOut, built, chain, offline, helper, ui>>

\* The verifier calls verifyEnvelope on the message as it arrived.
Verify ==
  /\ signed.ok
  /\ verdict' = verifyEnvelope(wire.message, wire.signature, now)
  /\ UNCHANGED <<now, request, signed, wire, V1, V2, canonOut, built, chain, offline, helper, ui>>

Next ==
  \/ CreateOfflineSignature
  \/ Tick
  \/ TamperField
  \/ RemoveField
  \/ TamperWrapper
  \/ GarbleSignature
  \/ SignRaw
  \/ Verify

Spec == Init /\ [][Next]_vars

(***************************************************************************)
(* Specification of the canonicalizers as pure functions                   *)
(***************************************************************************)
InitCanon ==
  /\ V1 \in JsonValues(MaxMembers)
  /\ V2 \in Reorderings(V1)
  /\ canonOut = NoCanon
  /\ now = 1000000
  /\ request = NoRequest
  /\ signed = NoSigned
  /\ wire = NoWire
  /\ verdict = NoVerdict
  /\ built = <<>>
  /\ chain = NoChain
  /\ offline = NoOffline
  /\ helper = NoHelper
  /\ ui = NoUi

Canonicalize ==
  /\ canonOut' = [fn |-> "canonicalize", s1 |-> canonicalize(V1), s2 |-> canonicalize(V2)]
  /\ UNCHANGED <<now, request, signed, wire, verdict, V1, V2, built, chain, offline, helper, ui>>

CanonicalBytes ==
  /\ canonOut' = [fn |-> "canonicalBytes",
                  s1 |-> canonicalBytes(V1).bytes, s2 |-> canonicalBytes(V2).bytes]
  /\ UNCHANGED <<now, request, signed, wire, verdict, V1, V2, built, chain, offline, helper, ui>>

NextCanon == Canonicalize \/ CanonicalBytes

SpecCanon == InitCanon /\ [][NextCanon]_vars


(***************************************************************************)
(* Specification of the signing functions: callers call                    *)
(* createOfflineSignature, signEnvelope and signOffline one after another; *)
(* built keeps the last two calls.                                         *)
(***************************************************************************)
\* The instants of the calls, in milliseconds.
BuildInstants == {1000000, 1000250}

BuildTtls == {JUndef, JNum(1)}

\* What the callers of the signing functions ask to have signed.
BuildRequests == {req \in Requests : req.network = JStr("testnet")}

\* The alg of the envelopes handed to signEnvelope directly.
EnvelopeAlgs == {JStr("ed25519"), JStr("secp256k1-ecdsa"), JStr("secp256k1"), JUndef}

\* The record of a call: its function and arguments, the instant, the random
\* bytes drawn during it, what it returned or threw, and its envelope
\* argument as it is after the call.
Call(fn, args, t, draw, result, after) ==
  [fn |-> fn, args |-> args, t |-> t, draw |-> draw, result |-> result, after |-> after]

NoDraw == [len |-> 0, v |-> ""]

\* built with one more call, the oldest dropped when there are two.
Remember(call) ==
  IF Len(built) = 0 THEN <<call>> ELSE <<built[Len(built)], call>>

InitBuild ==
  /\ now \in {t \in BuildInstants : \A u \in BuildInstants : t <= u}
  /\ built = <<>>
  /\ request = NoRequest
  /\ signed = NoSigned
  /\ wire = NoWire
  /\ verdict = NoVerdict
  /\ V1 = JNull
  /\ V2 = JNull
  /\ canonOut = NoCanon
  /\ chain = NoChain
  /\ offline = NoOffline
  /\ helper = NoHelper
  /\ ui = NoUi

BuildTick ==
  /\ \E t \in BuildInstants : t > now /\ now' = t
  /\ UNCHANGED <<request, signed, wire, verdict, V1, V2, canonOut, built, chain, offline, helper, ui>>

CallCreateOfflineSignature ==
  /\ \E keyPair \in KeyPairs \cup OtherKeyPairs, req \in BuildRequests, ttlMinutes \in BuildTtls,
        bytes \in RandomBytes :
       LET args == [network |-> req.network, aud |-> req.aud, sub |-> req.sub,
                    keyPair |-> keyPair, payload |-> req.payload,
                    ttlMinutes |-> ttlMinutes]
       IN built' = Remember(Call("createOfflineSignature", args, now, bytes,
                                 createOfflineSignatureWithDefaults(args, now, generateNonce(bytes)),
                                 JUndef))
  /\ UNCHANGED <<now, request, signed, wire, verdict, V1, V2, canonOut, chain, offline, helper, ui>>

CallSignEnvelope ==
  /\ \E keyPair \in KeyPairs, req \in BuildRequests, alg \in EnvelopeAlgs :
       LET envelope == buildEnvelope(req.network, req.aud, req.sub,
                                     JStr(PublicKeyString(keyPair)), generateNonce(CHOOSE b \in RandomBytes : TRUE),
                                     JDate(now), JDate(now + DefaultTtlMinutes * 60 * 1000),
                                     req.payload, alg)
       IN built' = Remember(Call("signEnvelope", [envelope |-> envelope, keyPair |-> keyPair],
                                 now, NoDraw, signEnvelope(envelope, keyPair), envelope))
  /\ UNCHANGED <<now, request, signed, wire, verdict, V1, V2, canonOut, chain, offline, helper, ui>>

CallSignOffline ==
  /\ \E keyPair \in {kp \in KeyPairs : kp.curve = "ed25519"}, req \in BuildRequests,
        ttlSeconds \in {JUndef, JNum(60)}, bytes \in RandomBytes :
       LET opts == [network |-> req.network, ttlSeconds |-> ttlSeconds, aud |-> req.aud,
                    origin |-> JStr("https://app.example")]
           args == [keyPair |-> keyPair, payload |-> req.payload, opts |-> opts]
       IN built' = Remember(Call("signOffline", args, now, bytes,
                                 signOffline(keyPair, req.payload, opts, now, bytes), JUndef))
  /\ UNCHANGED <<now, request, signed, wire, verdict, V1, V2, canonOut, chain, offline, helper, ui>>

NextBuild ==
  \/ BuildTick
  \/ CallCreateOfflineSignature
  \/ CallSignEnvelope
  \/ CallSignOffline

SpecBuild == InitBuild /\ [][NextBuild]_vars

(***************************************************************************)
(* Specification of the chain identity check: accounts and access keys     *)
(* come and go on chain, the RPC provider fails and recovers, and callers  *)
(* look keys up with assertKeyOnChain, verifyKeyOnChain and hasAccessKey.  *)
(***************************************************************************)
ChainAccounts == {"alice.testnet", "bob.near"}

ChainPks == {PublicKeyString(kp) : kp \in KeyPairs}

\* The provider answers ("up"), or its request times out or is refused.
ProviderModes == {"up", "timeout", "unavailable"}

\* provider.query of view_access_key: "ok" when it resolves, else the kind of
\* the error it rejects with.
ProviderQuery(ch, accountId, publicKey) ==
  IF ch.provider # "up" THEN "transport"
  ELSE IF accountId \notin ch.accounts THEN "UNKNOWN_ACCOUNT"
  ELSE IF <<accountId, publicKey>> \notin ch.keys THEN "UNKNOWN_ACCESS_KEY"
  ELSE "ok"

\* What the function resolves to: its catch returns false for every error.
assertKeyOnChain(ch, accountId, publicKey) ==
  IF ProviderQuery(ch, accountId, publicKey) = "ok" THEN "true" ELSE "false"

verifyKeyOnChain(ch, accountId, publicKey) == assertKeyOnChain(ch, accountId, publicKey)

hasAccessKey(ch, accountId, publicKey) ==
  IF ProviderQuery(ch, accountId, publicKey) = "ok" THEN "true" ELSE "false"

InitChain ==
  /\ chain = NoChain
  /\ offline = NoOffline
  /\ helper = NoHelper
  /\ ui = NoUi
  /\ now = 1000000
  /\ built = <<>>
  /\ request = NoRequest
  /\ signed = NoSigned
  /\ wire = NoWire
  /\ verdict = NoVerdict
  /\ V1 = JNull
  /\ V2 = JNull
  /\ canonOut = NoCanon

CreateAccount ==
  /\ \E a \in ChainAccounts \ chain.accounts :
       chain' = [chain EXCEPT !.accounts = @ \cup {a}]
  /\ UNCHANGED <<now, request, signed, wire, verdict, V1, V2, canonOut, built, offline, helper, ui>>

AddKey ==
  /\ \E a \in chain.accounts, pk \in ChainPks :
       /\ <<a, pk>> \notin chain.keys
       /\ chain' = [chain EXCEPT !.keys = @ \cup {<<a, pk>>}]
  /\ UNCHANGED <<now, request, signed, wire, verdict, V1, V2, canonOut, built, offline, helper, ui>>

DeleteKey ==
  /\ \E k \in chain.keys : chain' = [chain EXCEPT !.keys = @ \ {k}]
  /\ UNCHANGED <<now, request, signed, wire, verdict, V1, V2, canonOut, built, offline, helper, ui>>

ProviderChanges ==
  /\ \E mode \in ProviderModes \ {chain.provider} :
       chain' = [chain EXCEPT !.provider = mode]
  /\ UNCHANGED <<now, request, signed, wire, verdict, V1, V2, canonOut, built, offline, helper, ui>>

\* The record of a lookup by function fn: what the query did and what the
\* function resolved to.
Lookup(fn, accountId, publicKey, result) ==
  [chain EXCEPT !.fn = fn, !.accountId = accountId, !.publicKey = publicKey,
                !.query = ProviderQuery(chain, accountId, publicKey),
                !.result = result]

AssertKeyOnChain ==
  /\ \E a \in ChainAccounts, pk \in ChainPks :
       chain' = Lookup("assertKeyOnChain", a, pk, assertKeyOnChain(chain, a, pk))
  /\ UNCHANGED <<now, request, signed, wire, verdict, V1, V2, canonOut, built, offline, helper, ui>>

VerifyKeyOnChain ==
  /\ \E a \in ChainAccounts, pk \in ChainPks :
       chain' = Lookup("verifyKeyOnChain", a, pk, verifyKeyOnChain(chain, a, pk))
  /\ UNCHANGED <<now, request, signed, wire, verdict, V1, V2, canonOut, built, offline, helper, ui>>

HasAccessKey ==
  /\ \E a \in ChainAccounts, pk \in ChainPks :
       chain' = Lookup("hasAccessKey", a, pk, hasAccessKey(chain, a, pk))
  /\ UNCHANGED <<now, request, signed, wire, verdict, V1, V2, canonOut, built, offline, helper, ui>>

NextChain ==
  \/ CreateAccount
  \/ AddKey
  \/ DeleteKey
  \/ ProviderChanges
  \/ AssertKeyOnChain
  \/ VerifyKeyOnChain
  \/ HasAccessKey

SpecChain == InitChain /\ [][NextChain]_vars

(***************************************************************************)
(* Specification of the helpers: detectNetwork, withFastNearAuth and       *)
(* createProvider called with inputs of every kind.                        *)
(***************************************************************************)
coreVars == <<now, request, signed, wire, verdict, V1, V2, canonOut, built, chain>>

\* Host names, as their labels from left to right.
Hostnames ==
  { <<"localhost">>, <<"127", "0", "0", "1">>, <<"test", "near", "social">>,
    <<"app", "vercel", "app">>, <<"site", "netlify", "app">>, <<"example", "com">>,
    <<"constructor">> }

RECURSIVE JoinLabels(_)
\* window.location.hostname: the labels joined by dots.
JoinLabels(labels) ==
  IF Len(labels) = 0 THEN ""
  ELSE IF Len(labels) = 1 THEN labels[1]
  ELSE labels[1] \o "." \o JoinLabels(Tail(labels))

\* The own keys of the TestnetDomains object.
TestnetDomains == {"localhost", "127.0.0.1", "test.near.social"}

\* The property names every plain object inherits from Object.prototype that
\* a lower-case host name can spell.
ObjectPrototypeNames == {"constructor"}

\* name in obj: own and inherited properties.
In(name, ownKeys) == name \in ownKeys \cup ObjectPrototypeNames

detectNetwork(hostname) ==
  IF In(JoinLabels(hostname), TestnetDomains) THEN "testnet" ELSE "mainnet"

\* The URLs given to withFastNearAuth: origin, path and query parameters.
Urls ==
  { [origin |-> "https://rpc.testnet.fastnear.com", path |-> "", params |-> <<>>],
    [origin |-> "https://rpc.mainnet.fastnear.com", path |-> "/", params |-> <<<<"id", "1">>>>],
    [origin |-> "https://rpc.mainnet.fastnear.com", path |-> "/",
     params |-> <<<<"fastnear_api_key", "OLD">>, <<"id", "1">>>>] }

\* new URL(url): an empty path becomes "/".
NewURL(url) == [url EXCEPT !.path = IF @ = "" THEN "/" ELSE @]

RECURSIVE SetEntry(_, _, _)
\* list with the entry of name set to value: replaced where it is, or appended
\* (URLSearchParams.set, Headers.set).
SetEntry(list, name, value) ==
  IF Len(list) = 0 THEN <<<<name, value>>>>
  ELSE IF Head(list)[1] = name THEN <<<<name, value>>>> \o Tail(list)
  ELSE <<Head(list)>> \o SetEntry(Tail(list), name, value)

\* Header names in lower case, as the Headers class keeps them.
LowerCase(name) ==
  CASE name = "Authorization" -> "authorization"
    [] name = "Content-Type" -> "content-type"
    [] OTHER -> name

\* new Headers(plain object or undefined).
NewHeaders(headers) ==
  [kind |-> "Headers",
   list |-> [i \in 1..Len(headers.list) |->
               <<LowerCase(headers.list[i][1]), headers.list[i][2]>>]]

NoHeaders == [kind |-> "none", list |-> <<>>]

PlainHeaders(list) == [kind |-> "plain", list |-> list]

\* The RequestInit objects given to withFastNearAuth; given = FALSE is the
\* argument left out.
Inits ==
  { [given |-> FALSE, fields |-> <<>>, headers |-> NoHeaders],
    [given |-> TRUE, fields |-> <<>>, headers |-> NoHeaders],
    [given |-> TRUE, fields |-> <<<<"method", "POST">>, <<"body", "{}">>>>,
     headers |-> PlainHeaders(<<<<"Content-Type", "application/json">>>>)],
    [given |-> TRUE, fields |-> <<<<"method", "POST">>>>,
     headers |-> PlainHeaders(<<<<"Authorization", "Bearer OLD">>,
                                <<"Content-Type", "application/json">>>>)] }

AuthModes == {JUndef, JStr("header"), JStr("query")}

\* VITE_FASTNEAR_API_KEY of the build, and the apiKey argument of createProvider.
ApiKeys == {JUndef, JStr(""), JStr("KEY1")}

\* Mutant: the Authorization header is set whether or not there is a key.
withFastNearAuthAlways(url, init, mode, API_KEY) ==
  LET i == [init EXCEPT !.given = TRUE]
  IN [url |-> url,
      init |-> [i EXCEPT !.headers =
                  [kind |-> "Headers",
                   list |-> SetEntry(NewHeaders(i.headers).list, "authorization",
                                     "Bearer " \o API_KEY.a)]]]

\* withFastNearAuth of a build whose VITE_FASTNEAR_API_KEY is API_KEY.
withFastNearAuth(url, init, mode, API_KEY) ==
  LET i == [init EXCEPT !.given = TRUE]
  IN IF ~Truthy(API_KEY) THEN [url |-> url, init |-> i]
     ELSE IF mode = JStr("query")
          THEN [url |-> [NewURL(url) EXCEPT
                           !.params = SetEntry(@, "fastnear_api_key", API_KEY.a)],
                init |-> i]
     ELSE [url |-> url,
           init |-> [i EXCEPT !.headers =
                       [kind |-> "Headers",
                        list |-> SetEntry(NewHeaders(i.headers).list, "authorization",
                                          "Bearer " \o API_KEY.a)]]]

RpcUrls == [testnet |-> "https://rpc.testnet.fastnear.com",
            mainnet |-> "https://rpc.mainnet.fastnear.com"]

\* createProvider on a page of the given host: the options of the
\* JsonRpcProvider it makes.
createProvider(network, apiKey, hostname) ==
  LET net == IF Truthy(network) THEN network.a ELSE detectNetwork(hostname)
  IN [url |-> RpcUrls[net],
      headers |-> IF Truthy(apiKey)
                  THEN PlainHeaders(<<<<"Authorization", "Bearer " \o apiKey.a>>>>)
                  ELSE NoHeaders]

InitHelpers ==
  /\ helper = NoHelper
  /\ now = 1000000
  /\ request = NoRequest
  /\ signed = NoSigned
  /\ wire = NoWire
  /\ verdict = NoVerdict
  /\ V1 = JNull
  /\ V2 = JNull
  /\ canonOut = NoCanon
  /\ built = <<>>
  /\ chain = NoChain
  /\ offline = NoOffline
  /\ ui = NoUi

DetectNetwork ==
  /\ \E hostname \in Hostnames :
       helper' = [fn |-> "detectNetwork", args |-> [hostname |-> hostname],
                  result |-> detectNetwork(hostname)]
  /\ UNCHANGED <<coreVars, offline, ui>>

WithFastNearAuth ==
  /\ \E url \in Urls, init \in Inits, mode \in AuthModes, key \in ApiKeys :
       helper' = [fn |-> "withFastNearAuth",
                  args |-> [url |-> url, init |-> init, mode |-> mode, key |-> key],
                  result |-> withFastNearAuth(url, init, mode, key)]
  /\ UNCHANGED <<coreVars, offline, ui>>

CreateProvider ==
  /\ \E network \in {JNull, JStr("testnet"), JStr("mainnet")}, apiKey \in ApiKeys \cup {JNull},
        hostname \in Hostnames :
       helper' = [fn |-> "createProvider",
                  args |-> [network |-> network, apiKey |-> apiKey, hostname |-> hostname],
                  result |-> createProvider(network, apiKey, hostname)]
  /\ UNCHANGED <<coreVars, offline, ui>>

NextHelpers == DetectNetwork \/ WithFastNearAuth \/ CreateProvider

SpecHelpers == InitHelpers /\ [][NextHelpers]_vars

(***************************************************************************)
(* Specification of the two-tier offline signing: a build whose USE_FN_OS1 *)
(* has one value signs with signOfflineMessage, time passes, and a build   *)
(* whose USE_FN_OS1 has the same or the other value verifies with          *)
(* verifyOfflineMessage.                                                   *)
(***************************************************************************)
RECURSIVE JoinTokens(_)
\* The tokens of a JSON text as one string.
JoinTokens(tokens) ==
  IF Len(tokens) = 0 THEN "" ELSE Head(tokens) \o JoinTokens(Tail(tokens))

\* JSON.stringify(v) as the string value it returns.
JSONStringify(v) == JStr(JoinTokens(Stringify(v)))

\* The string TextEncoder.encode makes of its argument before encoding it.
USVString(v) ==
  CASE v.t = "obj" -> "[object Object]"
    [] v.t = "undef" -> ""
    [] OTHER -> v.a

\* nearAPI.utils.PublicKey.from(publicKey): a string without ':' is taken for
\* an ed25519 key; an unknown kind, a string that is no base58 string and a
\* key of the wrong length throw.
PublicKeyFrom(publicKey) ==
  LET parts == SplitPk(publicKey.a)
      kind == IF parts[2] = "" THEN "ed25519" ELSE parts[1]
      dec == Base58Decode(IF parts[2] = "" THEN parts[1] ELSE parts[2])
  IN IF publicKey.t # "str" \/ ~dec.ok \/ kind \notin PkKinds THEN [ok |-> FALSE, pub |-> NoPub]
     ELSE IF dec.raw.len # (IF kind = "ed25519" THEN Ed25519PkLen ELSE Secp256k1PkLen)
          THEN [ok |-> FALSE, pub |-> NoPub]
     ELSE [ok |-> TRUE, pub |-> dec.raw]

\* pubKey.verify(data, sigBytes) of near-api-js, which is not part of the
\* repository: true exactly for the signature keyPair.sign of the key made
\* over the data.
PublicKeyVerify(pub, data, sigBytes) == sigBytes.by = pub.id /\ sigBytes.over = data

\* simpleSign called at instant t.
simpleSign(payload, keyPair, accountId, t) ==
  LET message == JSONStringify(JObj(<< Member("payload", payload),
                                       Member("accountId", accountId),
                                       Member("timestamp", JNum(t)) >>))
      messageBytes == TextEncode(<<USVString(message)>>)
  IN [ok |-> TRUE, message |-> message,
      signature |-> Base58EncodeSig(KeyPairSign(keyPair, messageBytes)),
      publicKey |-> JStr(PublicKeyString(keyPair)),
      accountId |-> accountId]

\* simpleVerify: "true" or "false"; a throw inside its try is "false".
simpleVerify(signedMessage) ==
  LET messageBytes == TextEncode(<<USVString(signedMessage.message)>>)
      pubKey == PublicKeyFrom(signedMessage.publicKey)
  IN IF ~pubKey.ok \/ ~signedMessage.signature.ok THEN "false"
     ELSE Bool(PublicKeyVerify(pubKey.pub, messageBytes, signedMessage.signature.bytes))

SignOfflineDefaultTtlMinutes == 5

\* signOfflineMessage of a build whose USE_FN_OS1 is the given value, called
\* at instant t on a page of the given host; nonce is what generateNonce drew.
signOfflineMessage(USE_FN_OS1, args, hostname, t, nonce) ==
  IF USE_FN_OS1
  THEN LET network == IF ~Truthy(args.network) THEN JStr(detectNetwork(hostname))
                      ELSE args.network
           ttlMinutes == IF args.ttlMinutes.t = "undef" THEN SignOfflineDefaultTtlMinutes
                         ELSE args.ttlMinutes.n
           made == createOfflineSignature(network, args.aud, args.accountId, args.keyPair,
                                          args.payload, ttlMinutes, t, nonce)
       IN [ok |-> made.ok, message |-> made.message, signature |-> made.signature,
           publicKey |-> made.publicKey, accountId |-> JUndef]
  ELSE simpleSign(args.payload, args.keyPair, args.accountId, t)

\* Mutant: verification does not look at the flag.
verifyOfflineMessageSimpleOnly(USE_FN_OS1, signedMessage, t) == simpleVerify(signedMessage)

\* verifyOfflineMessage of a build whose USE_FN_OS1 is the given value, called
\* at instant t: "true", "false" or "throw".
verifyOfflineMessage(USE_FN_OS1, signedMessage, t) ==
  IF USE_FN_OS1
  THEN verifyEnvelope(signedMessage.message, signedMessage.signature, t).outcome
  ELSE simpleVerify(signedMessage)

\* What the page asks to have signed: the network given or left to detection,
\* the ttl given or left to the default.
OfflineArgs ==
  { [payload |-> req.payload, keyPair |-> keyPair, accountId |-> req.sub, aud |-> req.aud,
     network |-> network, ttlMinutes |-> ttlMinutes] :
      req \in Requests, keyPair \in KeyPairs, network \in {JNull, JStr("testnet")},
      ttlMinutes \in {JUndef, JNum(1)} }

OfflineHostnames == {<<"localhost">>, <<"example", "com">>}

InitOffline ==
  /\ offline = NoOffline
  /\ now \in {t \in Instants : \A u \in Instants : t <= u}
  /\ request = NoRequest
  /\ signed = NoSigned
  /\ wire = NoWire
  /\ verdict = NoVerdict
  /\ V1 = JNull
  /\ V2 = JNull
  /\ canonOut = NoCanon
  /\ built = <<>>
  /\ chain = NoChain
  /\ helper = NoHelper
  /\ ui = NoUi

\* A page signs a message.
SignOfflineMessage ==
  /\ offline.fn = "none"
  /\ \E flag \in BOOLEAN, args \in OfflineArgs, hostname \in OfflineHostnames, nonce \in Nonces :
       offline' = [NoOffline EXCEPT !.fn = "sign", !.flag = flag, !.at = now,
                     !.out = signOfflineMessage(flag, args, hostname, now, nonce)]
  /\ UNCHANGED <<coreVars, helper, ui>>

\* Time passes between signing and verifying.
OfflineTick ==
  /\ offline.fn = "sign"
  /\ \E t \in Instants : t > now /\ now' = t
  /\ UNCHANGED <<request, signed, wire, verdict, V1, V2, canonOut, built, chain,
                 offline, helper, ui>>

\* A page verifies the message.
VerifyOfflineMessage ==
  /\ offline.fn = "sign"
  /\ \E flag \in BOOLEAN :
       offline' = [offline EXCEPT !.fn = "verify", !.verifyFlag = flag,
                     !.result = verifyOfflineMessage(flag, offline.out, now)]
  /\ UNCHANGED <<coreVars, helper, ui>>

NextOffline == SignOfflineMessage \/ OfflineTick \/ VerifyOfflineMessage

SpecOffline == InitOffline /\ [][NextOffline]_vars

(***************************************************************************)
(* Specification of the main UI: the page script runs init, the user       *)
(* clicks login, logout and sign-message, the wallet selector notifies of  *)
(* sign-ins and sign-outs, and the awaits of the async functions resolve   *)
(* in any order. The three revisions of the script are the variants.       *)
(***************************************************************************)
\* Largest number of initializeWalletSelector calls in one page lifetime.
MaxInitializations == 2

\* part_007 is the main UI; src/src/rpc.ts holds the revision that caches a
\* key pair for offline signing, part_003 the one that looks up a key with
\* findExistingKey.
Variants == {"part_007", "rpc.ts", "part_003"}

\* state.accounts of a notification, as the account ids.
NotifiedAccounts == {<<>>, <<"alice.testnet">>, <<"bob.near", "alice.testnet">>}

showStatus(u) == [u EXCEPT !.statusEl.hidden = FALSE]

\* Mutant: a notification without accounts is ignored.
onWalletChangeCallbackSignInOnly(u, accounts) ==
  IF Len(accounts) > 0
  THEN LET v == showStatus([u EXCEPT !.accountId = accounts[1],
                                     !.currentAccount = accounts[1],
                                     !.loginForm.hidden = TRUE,
                                     !.loggedInView.hidden = FALSE])
       IN IF u.variant = "part_003" THEN [v EXCEPT !.lookups = @ \cup {accounts[1]}] ELSE v
  ELSE u

\* The callback given to onWalletChange, called with a state whose accounts
\* are the given ones. In part_003 a sign-in starts findExistingKey and a
\* sign-out clears keyPair.
onWalletChangeCallback(u, accounts) ==
  IF Len(accounts) > 0
  THEN LET v == showStatus([u EXCEPT !.accountId = accounts[1],
                                     !.currentAccount = accounts[1],
                                     !.loginForm.hidden = TRUE,
                                     !.loggedInView.hidden = FALSE])
       IN IF u.variant = "part_003" THEN [v EXCEPT !.lookups = @ \cup {accounts[1]}] ELSE v
  ELSE IF u.accountId # ""
       THEN [u EXCEPT !.session = "", !.accountId = "",
                      !.keyPair = IF u.variant = "part_003" THEN "" ELSE @,
                      !.currentAccount = "",
                      !.loginForm.hidden = FALSE,
                      !.loggedInView.hidden = TRUE,
                      !.statusEl.hidden = TRUE]
  ELSE u

RECURSIVE Deliver(_, _, _)
\* selector.store.observable delivers a state to each of n subscribers.
Deliver(u, accounts, n) ==
  IF n = 0 THEN u ELSE Deliver(onWalletChangeCallback(u, accounts), accounts, n - 1)

\* getWalletInfo().accounts: none when no wallet is selected.
getWalletInfoAccounts(store) == IF ~store.selected THEN <<>> ELSE store.accounts

\* checkSession of part_003.
checkSession(u) ==
  IF u.session = "" THEN u
  ELSE showStatus([u EXCEPT !.accountId = u.session,
                            !.keyPair = IF u.session \in u.keyStore THEN u.session ELSE @,
                            !.currentAccount = u.session,
                            !.loginForm.hidden = TRUE,
                            !.loggedInView.hidden = FALSE])

\* An initializeWalletSelector call in flight: who awaits it, the await it
\* is at, and the accounts getWalletInfo read.
Task(owner, stage, snapshot) == [owner |-> owner, stage |-> stage, snapshot |-> snapshot]

\* init() up to its first await.
init(u) ==
  IF u.variant = "part_003" THEN checkSession(u)
  ELSE [u EXCEPT !.tasks = <<Task("init", "import", <<>>)>>, !.started = 1]

\* The pages as they are when the script has run to its first await: the
\* revision served, a wallet session and a near_session entry left by an
\* earlier visit or not, and in localStorage a key for one of the accounts.
UiStarts ==
  { init([NoUi EXCEPT !.loaded = TRUE, !.variant = variant, !.store = store,
                      !.session = session, !.keyStore = {"alice.testnet"}]) :
      variant \in Variants,
      store \in {NoStore, [accounts |-> <<"alice.testnet">>, selected |-> TRUE]},
      session \in {"", "alice.testnet"} }

InitUi ==
  /\ ui \in UiStarts
  /\ now = 1000000
  /\ request = NoRequest
  /\ signed = NoSigned
  /\ wire = NoWire
  /\ verdict = NoVerdict
  /\ V1 = JNull
  /\ V2 = JNull
  /\ canonOut = NoCanon
  /\ built = <<>>
  /\ chain = NoChain
  /\ offline = NoOffline
  /\ helper = NoHelper

\* The last step of the page, for the properties: a notification, the end of
\* logout() or a sign-message click, with the accountId before it; or another
\* step.
Event(ev, u) == [NoEvent EXCEPT !.ev = ev, !.prev = u.accountId]

Step == [NoEvent EXCEPT !.ev = "step"]

WithoutTask(tasks, i) == SubSeq(tasks, 1, i - 1) \o SubSeq(tasks, i + 1, Len(tasks))

\* The dynamic import of initializeWalletSelector resolves and
\* initWalletSelector is called.
ImportResolves ==
  /\ \E i \in 1..Len(ui.tasks) :
       /\ ui.tasks[i].stage = "import"
       /\ ui' = [ui EXCEPT !.tasks[i].stage = "setup", !.inits = @ + 1,
                           !.last = Step]
  /\ UNCHANGED <<coreVars, offline, helper>>

\* initWalletSelector resolves: walletSelector is set, the callback is
\* subscribed and getWalletInfo reads the state of the store.
InitWalletSelectorResolves ==
  /\ \E i \in 1..Len(ui.tasks) :
       /\ ui.tasks[i].stage = "setup"
       /\ ui' = [ui EXCEPT !.tasks[i].stage = "info",
                           !.tasks[i].snapshot = getWalletInfoAccounts(ui.store),
                           !.walletSelector = TRUE,
                           !.subscribers = @ + 1,
                           !.last = Step]
  /\ UNCHANGED <<coreVars, offline, helper>>

\* The rest of initializeWalletSelector, after getWalletInfo.
initializeWalletSelectorEnd(u, snapshot) ==
  IF Len(snapshot) > 0
  THEN showStatus([u EXCEPT !.accountId = snapshot[1],
                            !.currentAccount = snapshot[1],
                            !.loginForm.hidden = TRUE,
                            !.loggedInView.hidden = FALSE])
  ELSE u

\* The rest of init(), after initializeWalletSelector.
initEnd(u) ==
  IF u.walletSelector /\ Len(u.store.accounts) > 0
  THEN showStatus([u EXCEPT !.accountId = u.store.accounts[1],
                            !.currentAccount = u.store.accounts[1],
                            !.loginForm.display = "none",
                            !.loggedInView.display = "block"])
  ELSE u

\* getWalletInfo resolves; initializeWalletSelector ends and its caller goes
\* on: init() looks at the store, login() shows the modal.
GetWalletInfoResolves ==
  /\ \E i \in 1..Len(ui.tasks) :
       /\ ui.tasks[i].stage = "info"
       /\ LET u == initializeWalletSelectorEnd(ui, ui.tasks[i].snapshot)
              v == IF ui.tasks[i].owner = "init" THEN initEnd(u) ELSE u
          IN ui' = [v EXCEPT !.tasks = WithoutTask(ui.tasks, i),
                             !.last = Step]
  /\ UNCHANGED <<coreVars, offline, helper>>

\* login() up to its first await.
login(u) ==
  IF ~u.walletSelector
  THEN [showStatus(u) EXCEPT !.tasks = Append(@, Task("login", "import", <<>>)),
                             !.started = @ + 1]
  ELSE showStatus(u)

\* The user clicks login.
LoginClick ==
  /\ ui.walletSelector \/ ui.started < MaxInitializations
  /\ ui' = [login(ui) EXCEPT !.last = Step]
  /\ UNCHANGED <<coreVars, offline, helper>>

\* Mutant: an error caught in logout ends it.
logoutEndUnlessThrown(u, path) ==
  IF path \in {"getWalletInfo threw", "signOut threw"} THEN [u EXCEPT !.logout = "idle"]
  ELSE LET v == [u EXCEPT !.session = "", !.accountId = "", !.keyPair = "", !.logout = "idle"]
       IN IF u.variant = "part_003"
          THEN [v EXCEPT !.loginForm.hidden = FALSE, !.loggedInView.hidden = TRUE,
                         !.statusEl.hidden = TRUE]
          ELSE [v EXCEPT !.loginForm.display = "block", !.loggedInView.display = "none",
                         !.statusEl.display = "none"]

\* The statements of logout() after its try block; path is the way the try
\* block was left.
logoutEnd(u, path) ==
  LET v == [u EXCEPT !.session = "", !.accountId = "", !.keyPair = "", !.logout = "idle"]
  IN IF u.variant = "part_003"
     THEN [v EXCEPT !.loginForm.hidden = FALSE, !.loggedInView.hidden = TRUE,
                    !.statusEl.hidden = TRUE]
     ELSE [v EXCEPT !.loginForm.display = "block", !.loggedInView.display = "none",
                    !.statusEl.display = "none"]

LogoutDone(u, path) == [Event("logout", u) EXCEPT !.path = path]

\* The user clicks logout: without a wallet selector logout() runs to its end,
\* otherwise it awaits the import and getWalletInfo.
LogoutClick ==
  /\ ui.logout = "idle"
  /\ IF ~ui.walletSelector
     THEN ui' = [logoutEnd(ui, "no wallet selector") EXCEPT
                   !.last = LogoutDone(ui, "no wallet selector")]
     ELSE ui' = [ui EXCEPT !.logout = "getWalletInfo", !.last = Step]
  /\ UNCHANGED <<coreVars, offline, helper>>

\* getWalletInfo of logout() resolves with or without a wallet, or the import
\* or selector.wallet() rejects.
LogoutGetWalletInfo ==
  /\ ui.logout = "getWalletInfo"
  /\ \/ ui' = [logoutEnd(ui, "getWalletInfo threw") EXCEPT
                 !.last = LogoutDone(ui, "getWalletInfo threw")]
     \/ /\ ~ui.store.selected
        /\ ui' = [logoutEnd(ui, "no wallet selected") EXCEPT
                    !.last = LogoutDone(ui, "no wallet selected")]
     \/ /\ ui.store.selected
        /\ ui' = [ui EXCEPT !.logout = "signOut", !.last = Step]
  /\ UNCHANGED <<coreVars, offline, helper>>

\* wallet.signOut() of logout(): the wallet signs out and the store notifies
\* its subscribers, or it throws.
LogoutSignOut ==
  /\ ui.logout = "signOut"
  /\ \/ ui' = [Deliver([ui EXCEPT !.store = NoStore], <<>>, ui.subscribers) EXCEPT
                 !.logout = "signed out", !.last = Step]
     \/ ui' = [ui EXCEPT !.logout = "signOut threw", !.last = Step]
  /\ UNCHANGED <<coreVars, offline, helper>>

\* logout() goes on after signOut.
LogoutEnd ==
  /\ ui.logout \in {"signed out", "signOut threw"}
  /\ ui' = [logoutEnd(ui, ui.logout) EXCEPT !.last = LogoutDone(ui, ui.logout)]
  /\ UNCHANGED <<coreVars, offline, helper>>

\* The wallet selector store changes (a sign-in, a sign-out, a change of
\* account, or the same accounts again) and notifies its subscribers.
WalletStateChange ==
  /\ ui.subscribers >= 1
  /\ \E accounts \in NotifiedAccounts :
       ui' = [Deliver([ui EXCEPT !.store = [accounts |-> accounts,
                                            selected |-> Len(accounts) > 0]],
                      accounts, ui.subscribers) EXCEPT
                !.last = [Event("notify", ui) EXCEPT !.accounts = accounts]]
  /\ UNCHANGED <<coreVars, offline, helper>>

\* What signTestMessage signed: for which account and with whose key ("" when
\* it signed with no key of the page).
Signed(u, account, key) ==
  [Event("sign", u) EXCEPT !.signAccount = account, !.signKey = key]

\* signTestMessage. In src/src/rpc.ts it signs with the cached keyPair, which
\* it takes from the store or generates for accountId when there is none; in
\* part_003 it needs the keyPair that findExistingKey or checkSession set; in
\* part_007 it signs with the function-call key of accountId when there is
\* one and asks the wallet otherwise.
signTestMessage(u) ==
  IF u.variant = "rpc.ts"
  THEN IF u.accountId = "" THEN [showStatus(u) EXCEPT !.last = Event("sign refused", u)]
       ELSE LET key == IF u.keyPair # "" THEN u.keyPair ELSE u.accountId
            IN [showStatus(u) EXCEPT !.keyPair = key,
                                     !.keyStore = IF u.keyPair # "" THEN @
                                                  ELSE @ \cup {u.accountId},
                                     !.last = Signed(u, u.accountId, key)]
  ELSE IF u.variant = "part_003"
  THEN IF u.accountId = "" \/ u.keyPair = ""
       THEN [showStatus(u) EXCEPT !.last = Event("sign refused", u)]
       ELSE [showStatus(u) EXCEPT !.last = Signed(u, u.accountId, u.keyPair)]
  ELSE IF u.accountId = "" THEN [showStatus(u) EXCEPT !.last = Event("sign refused", u)]
  ELSE IF u.accountId \in u.keyStore
       THEN [showStatus(u) EXCEPT !.last = Signed(u, u.accountId, u.accountId)]
  ELSE [showStatus(u) EXCEPT !.last = Signed(u, u.accountId, "")]

\* The user clicks sign-message.
SignMessageClick ==
  /\ ui' = signTestMessage(ui)
  /\ UNCHANGED <<coreVars, offline, helper>>

\* findExistingKey of part_003 resolves, with the key of the account when
\* localStorage has one.
FindExistingKeyResolves ==
  /\ \E account \in ui.lookups :
       ui' = [ui EXCEPT !.lookups = @ \ {account},
                        !.keyPair = IF account \in ui.keyStore THEN account ELSE @,
                        !.last = Step]
  /\ UNCHANGED <<coreVars, offline, helper>>

\* Whether the user sees an element: an inline display of none hides it and
\* another inline display shows it, unless the rule of the 'hidden' class
\* is declared !important; without an inline display the class decides.
Visible(el, important) ==
  IF el.display = "none" THEN FALSE
  ELSE IF el.hidden THEN ~important /\ el.display # ""
  ELSE TRUE

NextUi ==
  \/ ImportResolves
  \/ InitWalletSelectorResolves
  \/ GetWalletInfoResolves
  \/ LoginClick
  \/ LogoutClick
  \/ LogoutGetWalletInfo
  \/ LogoutSignOut
  \/ LogoutEnd
  \/ WalletStateChange
  \/ SignMessageClick
  \/ FindExistingKeyResolves

SpecUi == InitUi /\ [][NextUi]_vars

(***************************************************************************)
(* Properties of the canonicalizers                                        *)
(***************************************************************************)
\* C3: values that are deep-equal up to the insertion order of object keys, at
\* any nesting level, have the same canonicalize string and the same
\* canonicalBytes.
CanonicalDeterminism ==
  canonOut.fn # "none" => canonOut.s1 = canonOut.s2

\* C3 witness: both canonicalizers have run on an object nested in an object
\* whose keys were inserted in two different orders.
CanonicalDeterminismWitness ==
  /\ canonOut.fn = "canonicalBytes"
  /\ V1 # V2
  /\ V1.t = "obj"
  /\ \E i \in 1..Len(V1.kids) :
       /\ V1.kids[i].v.t = "obj"
       /\ Len(V1.kids[i].v.kids) = 2
       /\ Prop(V2, V1.kids[i].k) # V1.kids[i].v
  /\ canonOut.s1 = canonOut.s2

RECURSIVE KeysAscendingFrom(_, _, _)
\* The keys of every object of a JSON text, read token by token, ascend in
\* string comparison; stack holds the last key seen in each open object.
KeysAscendingFrom(toks, i, stack) ==
  IF i > Len(toks) THEN TRUE
  ELSE CASE toks[i] \in {"{", "["} -> KeysAscendingFrom(toks, i + 1, Append(stack, ""))
         [] toks[i] \in {"}", "]"} ->
              KeysAscendingFrom(toks, i + 1, SubSeq(stack, 1, Len(stack) - 1))
         [] toks[i] = "\"" ->
              IF i + 3 <= Len(toks) /\ toks[i + 3] = ":"
              THEN /\ \/ stack[Len(stack)] = ""
                      \/ LexLess(CodeUnits(stack[Len(stack)]), CodeUnits(toks[i + 1]))
                   /\ KeysAscendingFrom(toks, i + 4, [stack EXCEPT ![Len(stack)] = toks[i + 1]])
              ELSE KeysAscendingFrom(toks, i + 3, stack)
         [] OTHER -> KeysAscendingFrom(toks, i + 1, stack)

RECURSIVE JoinCanonical(_, _)
JoinCanonical(elems, i) ==
  IF i > Len(elems) THEN <<>>
  ELSE (IF i = 1 THEN <<>> ELSE <<",">>) \o canonicalize(elems[i].v)
         \o JoinCanonical(elems, i + 1)

\* C4: in the output of canonicalize the keys of every object, at every
\* nesting level, appear in ascending lexicographic order, also keys that look
\* like non-negative integers, and an array keeps the order of its elements.
CanonicalKeyOrder ==
  canonOut.fn = "canonicalize" =>
    /\ KeysAscendingFrom(canonOut.s1, 1, <<>>)
    /\ V1.t = "arr" => canonOut.s1 = <<"[">> \o JoinCanonical(V1.kids, 1) \o <<"]">>

(***************************************************************************)
(* Properties of signing and verification                                  *)
(***************************************************************************)
ExpOf(message) == DateGetTime(Prop(Envelope(message), "exp")).ms

Verified == verdict.outcome # "none"

\* The message and the signature arrive as createOfflineSignature returned them.
Unmodified ==
  signed.ok /\ wire.message = signed.message /\ wire.signature = signed.signature

\* The signature on the wire is the one signEnvelope makes, with the signer's
\* key, of the message on the wire.
ValidlySigned ==
  /\ signed.ok
  /\ signEnvelope(wire.message, SignerOf(signed)).ok
  /\ wire.signature = signEnvelope(wire.message, SignerOf(signed)).signature

Changed(f) ==
  /\ Envelope(wire.message).t = "obj"
  /\ Prop(Envelope(wire.message), f) # Prop(Envelope(signed.message), f)

\* C2: with the payload, the nonce, sub or aud of a signed envelope changed to
\* a different value and the signature kept, verifyEnvelope returns false.
TamperSensitivity ==
  (/\ Verified
   /\ signed.ok
   /\ wire.signature = signed.signature
   /\ \E f \in {"payload", "nonce", "sub", "aud"} : Changed(f))
  => verdict.outcome = "false"

ExpiredRejected ==
  /\ Verified /\ Unmodified
  /\ ExpOf(wire.message) = now - 1000
  /\ verdict.outcome = "false"

\* C6: verifyEnvelope allows 2 minutes of clock skew on exp: an envelope whose
\* exp lies less than 2 minutes before the current time is accepted, one whose
\* exp lies more than 2 minutes before it is rejected.
ClockSkewTolerance ==
  (Verified /\ Unmodified /\ ExpOf(wire.message) < now) =>
    /\ now - ExpOf(wire.message) < 2 * 60 * 1000 => verdict.outcome = "true"
    /\ now - ExpOf(wire.message) > 2 * 60 * 1000 => verdict.outcome = "false"

\* C7: a message whose offline_signature.domain is not the exact string
\* 'fastnear/offline-signature@v1' is rejected, also when it is well-formed,
\* unexpired and validly signed over its canonical bytes.
DomainIsolation ==
  (/\ Verified
   /\ Envelope(wire.message).t = "obj"
   /\ Prop(Envelope(wire.message), "domain") # JStr(Domain))
  => verdict.outcome = "false"

\* C7 witness: an envelope with another domain, signed by the signer over its
\* canonical bytes and not expired, was rejected.
DomainIsolationWitness ==
  /\ Verified
  /\ Prop(Envelope(wire.message), "domain") = JStr("fastnear/offline-signature@v2")
  /\ ValidlySigned
  /\ now <= ExpOf(wire.message)
  /\ verdict.outcome = "false"

\* The algorithm the prefix of a pk string implies.
ImpliedAlg(pk) ==
  CASE SplitPk(pk.a)[1] = "ed25519" -> JStr("ed25519")
    [] SplitPk(pk.a)[1] = "secp256k1" -> JStr("secp256k1-ecdsa")
    [] OTHER -> JUndef

\* C8: verifyEnvelope returns false whenever the declared alg differs from the
\* algorithm implied by the prefix of pk, whatever the signature.
AlgKeyConsistency ==
  (/\ Verified
   /\ Envelope(wire.message).t = "obj"
   /\ Prop(Envelope(wire.message), "pk").t = "str"
   /\ ImpliedAlg(Prop(Envelope(wire.message), "pk")) # JUndef
   /\ Prop(Envelope(wire.message), "alg")
        # ImpliedAlg(Prop(Envelope(wire.message), "pk")))
  => verdict.outcome = "false"

\* C8 witness: alg 'ed25519' declared with the 64-byte 'secp256k1:' key, and a
\* signature the holder of that key made of the canonical bytes, was rejected.
AlgKeyConsistencyWitness ==
  /\ Verified
  /\ Prop(Envelope(wire.message), "alg") = JStr("ed25519")
  /\ parseNearPk(Prop(Envelope(wire.message), "pk")).alg = "secp256k1-ecdsa"
  /\ wire.signature.ok
  /\ wire.signature.bytes.over.bytes = canonicalize(wire.message)
  /\ now <= ExpOf(wire.message)
  /\ verdict.outcome = "false"

\* The seven checks of the verifier, each as a condition on the message, the
\* signature and the clock.
PassesCheck(n) ==
  LET m == wire.message
      env == Envelope(m)
      parsed == parseNearPk(Prop(env, "pk"))
      bytes == TextEncode(canonicalize(m))
      exp == DateGetTime(Prop(env, "exp"))
  IN CASE n = 1 -> Len(m.kids) = 1 /\ m.kids[1].k = "offline_signature"
       [] n = 2 -> Prop(env, "domain") = JStr(Domain)
       [] n = 3 -> \A f \in RequiredFields : Truthy(Prop(env, f))
       [] n = 4 -> ~exp.nan /\ now <= exp.ms
       [] n = 5 -> parsed.ok
       [] n = 6 -> parsed.ok /\ Prop(env, "alg") = JStr(parsed.alg)
       [] n = 7 -> /\ wire.signature.ok
                   /\ wire.signature.bytes.len = SigLen
                   /\ parsed.ok
                   /\ CurveVerify(wire.signature.bytes,
                                  IF parsed.alg = "ed25519" THEN bytes ELSE sha256(bytes),
                                  parsed.pub)

\* The first of the seven checks that fails; 8 when none does.
FirstFailing ==
  IF \E n \in 1..7 : ~PassesCheck(n)
  THEN CHOOSE n \in 1..7 : ~PassesCheck(n) /\ \A k \in 1..(n - 1) : PassesCheck(k)
  ELSE 8

\* The check a step of verifyEnvelope decides; 0 for the steps that only
\* prepare the bytes (canonicalize, base58 decoding).
CheckOf(step) ==
  CASE step = "structure" -> 1
    [] step = "domain" -> 2
    [] step = "fields" -> 3
    [] step = "expiry" -> 4
    [] step = "pkparse" -> 5
    [] step = "alg" -> 6
    [] step \in {"siglen", "crypto"} -> 7
    [] OTHER -> 0

\* C9: verification succeeds only if all seven checks pass, the curve
\* primitive is invoked only after the six cheaper checks have passed, and on
\* the first failing check verifyEnvelope returns false without evaluating
\* later checks.
OrderedChecks ==
  Verified =>
    /\ verdict.outcome = "true" => FirstFailing = 8
    /\ verdict.crypto => FirstFailing >= 7
    /\ FirstFailing <= 7 =>
         /\ verdict.outcome = "false"
         /\ \A i \in 1..Len(verdict.steps) : CheckOf(verdict.steps[i]) <= FirstFailing

\* The same, for the messages whose offline_signature is an object and whose
\* exp, if any, is a date: what the code does apart from the throw on a null
\* offline_signature and the acceptance of an exp that is no date.
OrderedChecksOnObjects ==
  (/\ Verified
   /\ Envelope(wire.message).t # "null"
   /\ ~DateGetTime(Prop(Envelope(wire.message), "exp")).nan)
  => OrderedChecks

\* C10: a message that does not have exactly one top-level key, or whose
\* single top-level key is not 'offline_signature', is rejected.
StructuralCheck ==
  (/\ Verified
   /\ \/ Len(wire.message.kids) # 1
      \/ wire.message.kids[1].k # "offline_signature")
  => verdict.outcome = "false"

\* C10 witness: a message with an extra top-level key next to the
\* offline_signature, signed over all of it and not expired, was rejected.
StructuralCheckWitness ==
  /\ Verified
  /\ Len(wire.message.kids) = 2
  /\ Envelope(wire.message) = Envelope(signed.message)
  /\ ValidlySigned
  /\ now <= ExpOf(wire.message)
  /\ verdict.outcome = "false"

\* The envelope on the wire is an object that lacks field f.
Lacks(f) ==
  Envelope(wire.message).t = "obj" /\ ~HasOwn(Envelope(wire.message), f)

\* The signature on the wire is the signer's, over the canonical bytes of the
\* message on the wire or, for a secp256k1 signer, over their digest.
SignedAsIs ==
  /\ signed.ok
  /\ wire.signature.ok
  /\ wire.signature.bytes.by = SignerOf(signed).id
  /\ wire.signature.bytes.len = SigLen
  /\ wire.signature.bytes.over =
       (IF SignerOf(signed).curve = "secp256k1"
        THEN sha256(TextEncode(canonicalize(wire.message)))
        ELSE TextEncode(canonicalize(wire.message)))

\* C11: verifyEnvelope returns false for every message in which any of alg,
\* aud, pk, nonce, exp or sub is absent, whatever the signature.
RequiredFieldPresence ==
  (Verified /\ \E f \in RequiredFields : Lacks(f)) => verdict.outcome = "false"

\* C11 witness: an unexpired message without nonce, signed by the signer over
\* the canonical bytes of the message as it is, was rejected by the
\* required-fields check.
RequiredFieldPresenceWitness ==
  /\ Verified
  /\ Lacks("nonce")
  /\ SignedAsIs
  /\ now <= ExpOf(wire.message)
  /\ verdict.outcome = "false"
  /\ verdict.steps[Len(verdict.steps)] = "fields"

\* C12: each of the ten fields domain, alg, network, aud, sub, pk, nonce, iat,
\* exp and payload is required: a message from which network, iat or payload is
\* absent is rejected, even if its signature is valid over its canonical bytes.
AllFieldsRequired ==
  (Verified /\ \E f \in EnvelopeFields : Lacks(f)) => verdict.outcome = "false"

\* The envelope on the wire is an object with all its ten fields.
WellFormed ==
  /\ Len(wire.message.kids) = 1
  /\ Envelope(wire.message).t = "obj"
  /\ \A f \in EnvelopeFields : HasOwn(Envelope(wire.message), f)

\* signEnvelope signed the canonical bytes of the whole message it returned,
\* or their SHA-256 digest for secp256k1-ecdsa.
SignedBytes ==
  signed.ok =>
    signed.signature.bytes.over =
      (IF Prop(Envelope(signed.message), "alg") = JStr("secp256k1-ecdsa")
       THEN sha256(TextEncode(canonicalize(signed.message)))
       ELSE TextEncode(canonicalize(signed.message)))

\* C13: the signature covers the canonical bytes of the entire envelope: with
\* any inner field of a signed envelope changed (network, iat, exp, pk, alg,
\* payload) and the envelope still well-formed, verification returns false.
WholeEnvelopeSigned ==
  /\ SignedBytes
  /\ (/\ Verified
      /\ signed.ok
      /\ wire.signature = signed.signature
      /\ WellFormed
      /\ \E f \in {"network", "iat", "exp", "pk", "alg", "payload"} : Changed(f))
     => verdict.outcome = "false"

\* The same for the fields other than payload, where the loss of a __proto__
\* member in canonicalize plays no part.
InnerFieldsSigned ==
  /\ SignedBytes
  /\ (/\ Verified
      /\ signed.ok
      /\ wire.signature = signed.signature
      /\ WellFormed
      /\ \E f \in {"network", "iat", "exp", "pk", "alg"} : Changed(f))
     => verdict.outcome = "false"

\* The pk of the envelope on the wire is a string of which parseNearPk must
\* make no key: of a kind that is neither ed25519 nor secp256k1, or with
\* bytes that are not of the length of its kind.
BadPk ==
  /\ Envelope(wire.message).t = "obj"
  /\ Prop(Envelope(wire.message), "pk").t = "str"
  /\ LET parts == SplitPk(Prop(Envelope(wire.message), "pk").a)
         raw == Base58Decode(parts[2]).raw
     IN \/ parts[1] \notin PkKinds
        \/ parts[1] = "ed25519" /\ raw.len # Ed25519PkLen
        \/ parts[1] = "secp256k1" /\ raw.len # Secp256k1PkLen

\* C14: for every input, also a message whose offline_signature is null or not
\* an object, a signature that is no base58 string and a pk without ':' or of
\* unknown kind, verifyEnvelope resolves to false and never throws.
VerdictIsValue ==
  Verified =>
    /\ verdict.outcome \in {"true", "false"}
    /\ (\/ Envelope(wire.message).t # "obj"
        \/ ~wire.signature.ok
        \/ (BadPk /\ SplitPk(Prop(Envelope(wire.message), "pk").a)[1] \notin PkKinds))
       => verdict.outcome = "false"

\* C20: verifyEnvelope returns false whenever the decoded bytes of pk are not
\* 32 bytes for an 'ed25519:' key or 64 bytes for a 'secp256k1:' key, and
\* whenever the kind is neither of the two.
PkLengthEnforcement ==
  (Verified /\ BadPk) => verdict.outcome = "false"

\* C20 witness: an unexpired ed25519 envelope whose pk carries the signer's 32
\* bytes under an unknown kind, with the signer's signature over its canonical
\* bytes, was rejected when the key was parsed.
PkLengthEnforcementWitness ==
  /\ Verified
  /\ BadPk
  /\ SplitPk(Prop(Envelope(wire.message), "pk").a) = <<"p256", Base58Encode(RawPk(SignerOf(signed)))>>
  /\ SignedAsIs
  /\ now <= ExpOf(wire.message)
  /\ verdict.outcome = "false"
  /\ verdict.steps[Len(verdict.steps)] = "pkparse"

\* An ed25519 key under the secp256k1 prefix was rejected for its length.
PkWrongLengthRejected ==
  /\ Verified
  /\ BadPk
  /\ SplitPk(Prop(Envelope(wire.message), "pk").a)[1] = "secp256k1"
  /\ verdict.outcome = "false"
  /\ verdict.steps[Len(verdict.steps)] = "pkparse"

(***************************************************************************)
(* Properties of the signing functions                                     *)
(***************************************************************************)
\* The calls of function fn among the last two calls.
CallsOf(fn) == {i \in 1..Len(built) : built[i].fn = fn}

SupportedAlgs == {JStr("ed25519"), JStr("secp256k1-ecdsa")}

\* In the signed message of call i, alg is the algorithm the prefix of pk implies.
AlgMatchesPk(i) ==
  LET env == Envelope(built[i].result.message)
  IN Prop(env, "alg") = ImpliedAlg(Prop(env, "pk"))

\* C16: in every signed message produced by createOfflineSignature the
\* declared alg is the algorithm implied by the prefix of pk, and for a key pair
\* whose public-key prefix is neither 'ed25519' nor 'secp256k1' no envelope
\* declaring a supported algorithm is produced.
BuilderAlgMatchesPk ==
  \A i \in CallsOf("createOfflineSignature") :
    /\ built[i].result.ok => AlgMatchesPk(i)
    /\ built[i].args.keyPair.curve \notin PkKinds =>
         ~(/\ built[i].result.ok
           /\ Prop(Envelope(built[i].result.message), "alg") \in SupportedAlgs)

\* The same for the key pairs of the two kinds only.
BuilderAlgMatchesKnownPk ==
  \A i \in CallsOf("createOfflineSignature") :
    built[i].args.keyPair.curve \in PkKinds =>
      built[i].result.ok /\ AlgMatchesPk(i)

\* C17: for every envelope whose alg is neither 'ed25519' nor
\* 'secp256k1-ecdsa', signEnvelope fails with the unsupported-algorithm error,
\* returns no signed message, never calls keyPair.sign and leaves the envelope
\* unchanged.
UnsupportedAlgAtomic ==
  \A i \in CallsOf("signEnvelope") :
    Prop(Envelope(built[i].args.envelope), "alg") \notin SupportedAlgs =>
      /\ ~built[i].result.ok
      /\ built[i].result.err = "Unsupported alg"
      /\ built[i].result.message = JUndef
      /\ ~built[i].result.signature.ok
      /\ built[i].result.signCalls = <<>>
      /\ built[i].after = built[i].args.envelope

\* C17 witness: signEnvelope was called on an envelope declaring the alg
\* 'secp256k1', and on one with no alg, and threw both times.
UnsupportedAlgAtomicWitness ==
  /\ Len(built) > 1
  /\ \A i \in 1..Len(built) : built[i].fn = "signEnvelope" /\ ~built[i].result.ok
  /\ \E i, j \in 1..Len(built) :
       /\ Prop(Envelope(built[i].args.envelope), "alg") = JStr("secp256k1")
       /\ Prop(Envelope(built[j].args.envelope), "alg") = JUndef

\* Calls i and j of createOfflineSignature had the same arguments.
SameInputs(i, j) ==
  /\ built[i].fn = "createOfflineSignature"
  /\ built[j].fn = "createOfflineSignature"
  /\ built[i].args = built[j].args

\* C18: every call of createOfflineSignature draws a new 16-byte random nonce:
\* the nonce of its envelope is made of the bytes drawn during that call, and
\* two envelopes built from identical inputs with different draws have
\* different canonical bytes and different signatures.
FreshNonce ==
  /\ \A i \in CallsOf("createOfflineSignature") :
       built[i].result.ok =>
         /\ built[i].draw.len = 16
         /\ Prop(Envelope(built[i].result.message), "nonce") = generateNonce(built[i].draw)
  /\ \A i, j \in CallsOf("createOfflineSignature") :
       (/\ i < j
        /\ SameInputs(i, j)
        /\ built[i].result.ok /\ built[j].result.ok
        /\ built[i].draw # built[j].draw)
       => /\ Prop(Envelope(built[i].result.message), "nonce")
               # Prop(Envelope(built[j].result.message), "nonce")
          /\ canonicalize(built[i].result.message) # canonicalize(built[j].result.message)
          /\ built[i].result.signature # built[j].result.signature

\* C18 witness: two calls with identical inputs at the same instant drew
\* different bytes and returned different signatures.
FreshNonceWitness ==
  /\ Len(built) > 1
  /\ SameInputs(1, Len(built))
  /\ built[1].t = built[Len(built)].t
  /\ built[1].draw # built[Len(built)].draw
  /\ built[1].result.ok /\ built[Len(built)].result.ok
  /\ built[1].result.signature # built[Len(built)].result.signature

\* C19: in every envelope built by createOfflineSignature exp - iat is
\* ttlMinutes minutes exactly, 5 minutes when the caller gives none; in
\* signOffline exp = iat + ttlSeconds, 300 seconds when the caller gives none.
ExpiryIsIatPlusTtl ==
  /\ \A i \in CallsOf("createOfflineSignature") :
       built[i].result.ok =>
         LET env == Envelope(built[i].result.message)
             iat == DateGetTime(Prop(env, "iat"))
             exp == DateGetTime(Prop(env, "exp"))
             ttl == built[i].args.ttlMinutes
         IN /\ ~iat.nan /\ ~exp.nan
            /\ iat.ms = built[i].t
            /\ exp.ms - iat.ms = (IF ttl.t = "undef" THEN 5 ELSE ttl.n) * 60 * 1000
  /\ \A i \in CallsOf("signOffline") :
       LET env == Envelope(built[i].result.message)
           ttl == built[i].args.opts.ttlSeconds
       IN /\ Prop(env, "iat").t = "num" /\ Prop(env, "exp").t = "num"
          /\ Prop(env, "iat").n * 1000 <= built[i].t
          /\ built[i].t < (Prop(env, "iat").n + 1) * 1000
          /\ Prop(env, "exp").n - Prop(env, "iat").n = (IF ttl.t = "undef" THEN 300 ELSE ttl.n)

\* C19 witness: createOfflineSignature and signOffline were both called
\* without a ttl, signOffline at an instant that is no whole second, and their
\* envelopes expire 5 minutes and 300 seconds after iat.
ExpiryIsIatPlusTtlWitness ==
  /\ Len(built) > 1
  /\ built[1].fn = "createOfflineSignature"
  /\ built[1].args.ttlMinutes = JUndef
  /\ built[1].result.ok
  /\ ExpOf(built[1].result.message) = built[1].t + 300000
  /\ built[Len(built)].fn = "signOffline"
  /\ built[Len(built)].args.opts.ttlSeconds = JUndef
  /\ built[Len(built)].t % 1000 # 0
  /\ Prop(Envelope(built[Len(built)].result.message), "exp").n
       = Prop(Envelope(built[Len(built)].result.message), "iat").n + 300

(***************************************************************************)
(* Properties of the chain identity check                                  *)
(***************************************************************************)
\* C15: assertKeyOnChain, and verifyKeyOnChain which delegates to it, returns
\* true when the view_access_key query succeeds, false when it fails because
\* the key or the account does not exist, and propagates any other provider or
\* transport failure instead of returning false.
LookupDistinguishesFailure ==
  chain.fn \in {"assertKeyOnChain", "verifyKeyOnChain"} =>
    /\ chain.query = "ok" => chain.result = "true"
    /\ chain.query \in {"UNKNOWN_ACCOUNT", "UNKNOWN_ACCESS_KEY"} => chain.result = "false"
    /\ chain.query = "transport" => chain.result = "throw"

\* The same without the transport failures: what the code does.
LookupOfReachableChain ==
  (chain.fn # "none" /\ chain.query # "transport") =>
    /\ chain.query = "ok" => chain.result = "true"
    /\ chain.query \in {"UNKNOWN_ACCOUNT", "UNKNOWN_ACCESS_KEY"} => chain.result = "false"

(***************************************************************************)
(* Signature length and expiry of accepted envelopes                       *)
(***************************************************************************)
\* C21: for both algorithms verifyEnvelope returns false whenever the decoded
\* signature is not exactly 64 bytes, without invoking the curve primitive, and
\* every signature accepted as valid is exactly 64 bytes long.
SignatureLength ==
  (Verified /\ Envelope(wire.message).t = "obj") =>
    /\ (wire.signature.ok /\ wire.signature.bytes.len # 64) =>
         verdict.outcome = "false" /\ ~verdict.crypto
    /\ verdict.outcome = "true" =>
         wire.signature.ok /\ wire.signature.bytes.len = 64

\* C21 witness: the signature of an untouched, unexpired secp256k1 message,
\* cut to 63 bytes, was rejected at the length test.
SignatureLengthWitness ==
  /\ Verified
  /\ wire.message = signed.message
  /\ Prop(Envelope(wire.message), "alg") = JStr("secp256k1-ecdsa")
  /\ wire.signature.ok
  /\ wire.signature.bytes = [signed.signature.bytes EXCEPT !.len = 63]
  /\ now <= ExpOf(wire.message)
  /\ verdict.outcome = "false"
  /\ verdict.steps[Len(verdict.steps)] = "siglen"

\* C27: verifyEnvelope returns true only if exp is a valid point in time that
\* is not earlier than the current time; a validly signed envelope whose exp is
\* a non-empty string that is no date is not accepted.
AcceptedUnexpired ==
  (Verified /\ verdict.outcome = "true") =>
    /\ ~DateGetTime(Prop(Envelope(wire.message), "exp")).nan
    /\ DateGetTime(Prop(Envelope(wire.message), "exp")).ms >= now

\* The same for the envelopes whose exp is a date.
AcceptedUnexpiredDates ==
  (/\ Verified
   /\ verdict.outcome = "true"
   /\ ~DateGetTime(Prop(Envelope(wire.message), "exp")).nan)
  => DateGetTime(Prop(Envelope(wire.message), "exp")).ms >= now

(***************************************************************************)
(* Properties of the helpers                                               *)
(***************************************************************************)
\* The host name ends with the given labels.
EndsWith(hostname, suffix) ==
  /\ Len(hostname) > Len(suffix)
  /\ SubSeq(hostname, Len(hostname) - Len(suffix) + 1, Len(hostname)) = suffix

\* C23: detectNetwork returns 'testnet' for hostname 'localhost', 'mainnet'
\* for hostnames ending in '.vercel.app' or '.netlify.app', and 'testnet' by
\* default for every other hostname.
NetworkAsDocumented ==
  helper.fn = "detectNetwork" =>
    helper.result =
      (IF helper.args.hostname = <<"localhost">> THEN "testnet"
       ELSE IF \/ EndsWith(helper.args.hostname, <<"vercel", "app">>)
               \/ EndsWith(helper.args.hostname, <<"netlify", "app">>)
            THEN "mainnet"
       ELSE "testnet")

\* What the code does: testnet for the listed hosts, mainnet otherwise.
NetworkOfListedHosts ==
  helper.fn = "detectNetwork" =>
    /\ helper.args.hostname = <<"localhost">> => helper.result = "testnet"
    /\ EndsWith(helper.args.hostname, <<"vercel", "app">>) => helper.result = "mainnet"
    /\ EndsWith(helper.args.hostname, <<"netlify", "app">>) => helper.result = "mainnet"
    /\ helper.args.hostname = <<"example", "com">> => helper.result = "mainnet"

\* The entries of list whose name, in lower case, is not name.
RECURSIVE OtherEntries(_, _)
OtherEntries(list, name) ==
  IF Len(list) = 0 THEN {}
  ELSE (IF LowerCase(Head(list)[1]) = name THEN {}
        ELSE {<<LowerCase(Head(list)[1]), Head(list)[2]>>})
         \cup OtherEntries(Tail(list), name)

\* The value of the entry called name, "" when there is none.
EntryValue(list, name) ==
  IF \E i \in 1..Len(list) : list[i][1] = name
  THEN list[CHOOSE i \in 1..Len(list) : list[i][1] = name][2]
  ELSE ""

\* C24: with no API key withFastNearAuth returns the url and init unchanged in
\* both modes; with a key, 'header' mode leaves the url unchanged and sets only
\* the Authorization header, 'query' mode leaves init unchanged and sets only
\* the fastnear_api_key URL parameter; createProvider sets the Authorization
\* header only when apiKey is given.
AuthOnlyWithKey ==
  /\ helper.fn = "withFastNearAuth" =>
       LET a == helper.args
           r == helper.result
           hasKey == a.key.t = "str" /\ a.key.a # ""
       IN /\ ~hasKey =>
               /\ r.url = a.url
               /\ r.init.fields = a.init.fields /\ r.init.headers = a.init.headers
          /\ (hasKey /\ a.mode # JStr("query")) =>
               /\ r.url = a.url
               /\ r.init.fields = a.init.fields
               /\ EntryValue(r.init.headers.list, "authorization") = "Bearer " \o a.key.a
               /\ OtherEntries(r.init.headers.list, "authorization")
                    = OtherEntries(a.init.headers.list, "authorization")
               /\ Len(r.init.headers.list)
                    = Cardinality(OtherEntries(a.init.headers.list, "authorization")) + 1
          /\ (hasKey /\ a.mode = JStr("query")) =>
               /\ r.init.fields = a.init.fields /\ r.init.headers = a.init.headers
               /\ r.url.origin = a.url.origin
               /\ r.url.path = "/"
               /\ EntryValue(r.url.params, "fastnear_api_key") = a.key.a
               /\ OtherEntries(r.url.params, "fastnear_api_key")
                    = OtherEntries(a.url.params, "fastnear_api_key")
               /\ Len(r.url.params)
                    = Cardinality(OtherEntries(a.url.params, "fastnear_api_key")) + 1
  /\ helper.fn = "createProvider" =>
       LET hasKey == helper.args.apiKey.t = "str" /\ helper.args.apiKey.a # ""
       IN IF hasKey
          THEN helper.result.headers.list
                 = <<<<"Authorization", "Bearer " \o helper.args.apiKey.a>>>>
          ELSE helper.result.headers = NoHeaders

\* C24 witness: withFastNearAuth, in a build with a key, was called in header
\* mode with an init that has a method, a body and a Content-Type header, and
\* returned them with the Authorization header added.
AuthOnlyWithKeyWitness ==
  /\ helper.fn = "withFastNearAuth"
  /\ helper.args.key = JStr("KEY1")
  /\ helper.args.mode = JStr("header")
  /\ Len(helper.args.init.fields) > 1
  /\ helper.result.init.headers.list
       = <<<<"content-type", "application/json">>, <<"authorization", "Bearer KEY1">>>>

\* In a build without a key the init with an Authorization header of its own
\* came back as it was given.
AuthNoKeyWitness ==
  /\ helper.fn = "withFastNearAuth"
  /\ helper.args.key = JStr("")
  /\ helper.args.mode = JStr("query")
  /\ EntryValue(helper.args.init.headers.list, "Authorization") = "Bearer OLD"
  /\ helper.result.init.headers = helper.args.init.headers
  /\ helper.result.url = helper.args.url

StrategySimpleWitness ==
  /\ offline.fn = "verify"
  /\ ~offline.flag /\ ~offline.verifyFlag
  /\ offline.out.message.t = "str"
  /\ offline.result = "true"

\* A message of one strategy was given to the other, both ways, and refused.
StrategyCrossWitness ==
  /\ offline.fn = "verify"
  /\ offline.flag /\ ~offline.verifyFlag
  /\ offline.result = "false"

StrategyCrossSimpleWitness ==
  /\ offline.fn = "verify"
  /\ ~offline.flag /\ offline.verifyFlag
  /\ offline.result = "false"

(***************************************************************************)
(* Properties of the main UI                                               *)
(***************************************************************************)
\* C25: after logout() completes accountId is null, keyPair is null and the
\* near_session entry is removed, on every path: no wallet selector, no wallet
\* selected, signOut succeeding, getWalletInfo or signOut throwing.
LogoutClearsSession ==
  ui.last.ev = "logout" =>
    /\ ui.accountId = ""
    /\ ui.keyPair = ""
    /\ ui.session = ""
    /\ ui.logout = "idle"

\* C25 witness: a user was signed in, signOut threw, and logout() completed.
LogoutClearsSessionWitness ==
  /\ ui.last.ev = "logout"
  /\ ui.last.path = "signOut threw"
  /\ ui.last.prev # ""
  /\ ui.store.selected
  /\ ui.accountId = ""

\* logout() completed on each of the other paths.
LogoutPathsWitness ==
  /\ ui.last.ev = "logout"
  /\ ui.last.path = "getWalletInfo threw"
  /\ ui.last.prev # ""

LogoutSignedOutWitness ==
  /\ ui.last.ev = "logout"
  /\ ui.last.path = "signed out"

LogoutNoWalletWitness ==
  /\ ui.last.ev = "logout"
  /\ ui.last.path \in {"no wallet selector", "no wallet selected"}
  /\ ui.last.prev # ""

\* C26: on every notification, if state.accounts is non-empty accountId
\* becomes its first account and the logged-in view is selected; if it is
\* empty and accountId was set, accountId becomes null and near_session is
\* removed; if it is empty and accountId was null, nothing of the page
\* changes. So after a notification accountId is the first account of the
\* notification, or null.
WalletChangeHandling ==
  [][ (ui'.last.ev = "notify" /\ ui' # ui) =>
        LET accounts == ui'.last.accounts
        IN /\ Len(accounts) > 0 =>
                /\ ui'.accountId = accounts[1]
                /\ ui'.loginForm.hidden /\ ~ui'.loggedInView.hidden
           /\ (Len(accounts) = 0 /\ ui.accountId # "") =>
                /\ ui'.accountId = ""
                /\ ui'.session = ""
           /\ (Len(accounts) = 0 /\ ui.accountId = "") =>
                [ui' EXCEPT !.last = ui.last, !.store = ui.store] = ui ]_vars

\* C26 witness: a signed-in page was notified of a state without accounts.
WalletChangeHandlingWitness ==
  /\ ui.last.ev = "notify"
  /\ ui.last.accounts = <<>>
  /\ ui.last.prev # ""
  /\ ui.accountId = ""
  /\ ui.session = ""

\* A page was notified of two accounts and took the first.
WalletChangeFirstAccountWitness ==
  /\ ui.last.ev = "notify"
  /\ Len(ui.last.accounts) = 2
  /\ ui.last.prev = ui.last.accounts[2]
  /\ ui.accountId = ui.last.accounts[1]

\* C28: the key pair signTestMessage signs with is the one stored or generated
\* for the current accountId, and keyPair is non-null only while accountId is
\* non-null.
KeyFollowsAccount ==
  /\ (ui.last.ev = "sign" /\ ui.last.signKey # "") => ui.last.signKey = ui.last.signAccount
  /\ ui.keyPair # "" => ui.accountId # ""

\* The parts of C28, each of which fails: signTestMessage signs with the key of
\* the current account; keyPair is null while accountId is null in the
\* revision that caches the key and in the one that looks it up.
SignsWithKeyOfAccount ==
  (ui.last.ev = "sign" /\ ui.last.signKey # "") => ui.last.signKey = ui.last.signAccount

KeyOnlyWhileSignedInCached ==
  ui.variant = "rpc.ts" => (ui.keyPair # "" => ui.accountId # "")

KeyOnlyWhileSignedInLookup ==
  ui.variant = "part_003" => (ui.keyPair # "" => ui.accountId # "")

\* What holds: part_007, which does not cache a key pair, signs with the
\* function-call key of the current account or with the wallet.
KeyFollowsAccountUncached ==
  ui.variant = "part_007" =>
    /\ (ui.last.ev = "sign" /\ ui.last.signKey # "") => ui.last.signKey = ui.last.signAccount
    /\ ui.keyPair = ""

\* C29: in the main UI the logged-in view is visible and the login form
\* hidden exactly when accountId is non-null, and the status message of a
\* sign-in notification is visible, whichever way the stylesheet declares
\* the 'hidden' class.
ViewMatchesSession ==
  ui.variant = "part_007" =>
    \E important \in BOOLEAN :
      /\ ui.accountId # "" <=> (/\ Visible(ui.loggedInView, important)
                                /\ ~Visible(ui.loginForm, important))
      /\ (ui.last.ev = "notify" /\ Len(ui.last.accounts) > 0)
           => Visible(ui.statusEl, important)

\* What holds: part_003, which shows and hides with the class list only,
\* keeps the views in step with accountId.
ViewMatchesSessionByClass ==
  ui.variant = "part_003" =>
    \A important \in BOOLEAN :
      ui.accountId # "" <=> (/\ Visible(ui.loggedInView, important)
                             /\ ~Visible(ui.loginForm, important))

\* C30: in the main UI initWalletSelector is called and a subscriber
\* registered at most once in a page lifetime.
SingleInitialisation ==
  ui.variant = "part_007" => ui.inits <= 1 /\ ui.subscribers <= 1

\* What holds: no more wallet selectors are initialised than
\* initializeWalletSelector calls were started, one by init() and one by each
\* login click made before walletSelector was set.
InitialisationsStarted ==
  /\ ui.subscribers <= ui.inits
  /\ ui.inits <= ui.started
  /\ ui.started <= MaxInitializations

====
